---- MODULE Spec2Model ----
(***************************************************************************)
(* Model of the eye-diagram pipeline of the pm_table reader:               *)
(*   sampler -> SPSC ring -> processing thread -> display double buffer    *)
(*   -> render loop, with the command queue from the render loop back to   *)
(*   the processing thread (src/reader/gui_runner.cpp, gui_render.cpp,     *)
(*   shared_data_types.hpp, stats_utils.hpp, measure.cpp).                 *)
(***************************************************************************)
EXTENDS Integers, Sequences, FiniteSets, TLC

(***************************************************************************)
(* Bounds of the model.                                                    *)
(***************************************************************************)
\* clock ticks per millisecond
TicksPerMs == 1
\* number of RawSamples the sampler builds in one run
MaxSamples == 4
\* value of period_ms_ (capture window and number of bins)
PeriodMs == 2
\* number of slots of the SPSC ring (usable capacity is one less)
QueueSize == 3
\* largest accumulation depth a ChangeAccumulations command carries
MaxAccumulations == 2
\* number of commands the UI submits in one run
MaxCommands == 1
\* number of sensors in one pm_table snapshot
NumMeasurements == 2
\* number of commands the UI submits in one run of the command channel
MaxChannelCommands == 3
\* largest num_cycles of a burst, and number of bursts in one run
MaxCycles == 2
MaxBursts == 2
\* number of CPUs of the machine, and the largest real-time priority
NumCpus == 2
MaxPriority == 2
\* number of logical cores under stress
NumCores == 5
\* largest standard deviation of a sensor, and the steps the unit of strength is cut into
MaxStddev == 1
StrengthScale == 4
\* most iterations of the real-time update loop while one core is stressed
MaxUpdates == 2
\* sampling periods of one run of a blob reader, and lines of the moonitor
\* pipeline modelled (the program runs num_concurrent_pipelines = 4)
MaxPeriods == 3
NumLines == 2
\* regions acquired by LockedBuffers in one run, the page size and the
\* largest size_t value of the model
MaxRegions == 2
PageSize == 4
SizeMax == 15

(***************************************************************************)
(* Program constants.                                                      *)
(***************************************************************************)
\* DisplayData::window_before_ms default
window_before_ms == 50
\* trim percentage passed to calculate_trimmed_mean by the processor
TrimPercent == 10
\* largest pm_table size accepted by the sanity check, in bytes
SizeLimit == 16384
\* capacity of RawSample::measurements, in floats
PM_TABLE_MAX_FLOATS == 2048

\* reading of a tracked sensor while the worker waits, and its rise while it is busy
Baseline == 1
Swing == 2
\* longest short input of calculate_trimmed_mean, and its largest value
MaxData == 3
MaxValue == 3
\* elements of the pre-allocated sample buffer (max_samples_per_run), and the
\* last instant of the clock of the buffer-backed sampler
StorageSize == 3
MaxSteady == 17
\* worker threads of the StressTester whose stop() is followed (num_cores_)
NumStressThreads == 2
\* capture window of the EyeDiagramStorage objects, in ms before and after the
\* rising edge, the calls of process_sample followed and the longest step of
\* the timestamp between two calls
EyeBefore == 1
EyeAfter == 2
MaxEyeSamples == 4
MaxEyeStep == 2
\* the JitterMonitor: target period and histogram range in us, samples per
\* report, reports followed, and the width of int in bits, scaled down
target_period_us_ == 2
histogram_range_us_ == 1
report_interval_ == 3
MaxReports == 2
IntBits == 4
\* std::numeric_limits<long long>::max(), above every period
LLONG_MAX == 1000000
\* sample_period (1 ms) and spin_threshold (200 us) in units of 200 us
sample_period == 5
spin_threshold == 1
\* period, in reads, of the ripple on a tracked sensor
Ripple == 3
\* the tracked ("interesting") sensors, by original index
interesting_index_ == <<1>>
num_interesting == Len(interesting_index_)
period_ms_ == PeriodMs
num_bins == period_ms_
Sensors == 0 .. (num_interesting - 1)
Bins == 0 .. (num_bins - 1)
Buffers == {"A", "B"}
\* no RawSample (an empty ring slot, no sample consumed yet)
NoSample == [seq |-> 0]

VARIABLES
  now,                  \* steady clock, in ticks
  g_worker_state,       \* shared worker phase atomic
  spc,                  \* sampler position: "wait" | "write"
  sample_count,         \* samples the sampler has built
  pending,              \* the RawSample the sampler has built and not yet enqueued
  records_,             \* SPSC ring slots
  readIndex_,           \* SPSC ring consumer index
  writeIndex_,          \* SPSC ring producer index
  n_consumed,           \* history: number of samples dequeued by the processor
  last_seq,             \* history: production number of the latest sample dequeued
  last_ts,              \* history: timestamp of the latest sample dequeued
  last_phase,           \* history: worker_state of the latest sample dequeued
  pre_trigger_ts,       \* history: timestamp of the sample dequeued just before the
                        \* latest trigger sample (-1: there was none)
  command_queue_,       \* CommandQueue::queue_
  n_commands,           \* history: number of commands pushed so far
  max_accumulations_,   \* per-bin cap atomic
  last_cmd,             \* history: number of the latest command applied
  ppc,                  \* processing thread position
  work_done,            \* local of the outer loop iteration
  state,                \* capture state machine
  last_rise_time,       \* trigger time
  current_trace,        \* samples of the capture in progress
  accumulation_buffer,  \* [sensor][bin] -> deque of values
  max_acc,              \* cap loaded by the latest finalization
  write_buffer_ptr,     \* which buffer set the processor writes
  fill_i,               \* loop index i of steps c) and d)
  fill_bin,             \* loop index bin_idx of step c)
  display_data,         \* display_data_a_ / display_data_b_
  gui_display_pointers_,\* published pointer per sensor
  rpc,                  \* render loop position
  r_i,                  \* render loop sensor index
  plot,                 \* pointer loaded by the render loop
  pushed,               \* history: values pushed per bin since the bins were last cleared
  finalizations,        \* history: finalizations since the bins were last cleared
  popped_empty,         \* history: the trim step called pop_front() on an empty deque
  g_run_worker,         \* start signal of the stimulus worker
  wpc,                  \* stimulus worker position: "idle" | "spin" | "cycle" | "busy"
  w_cycles,             \* num_cycles of the burst
  w_i,                  \* loop index i of worker_thread_func
  bursts,               \* history: number of bursts launched
  tpc,                  \* guarded thread position: "unborn" | "running" | "guarded" | "done"
  thread_sched,         \* scheduling policy and priority of the calling thread
  thread_affinity,      \* CPU affinity mask of the calling thread
  memory_locked,        \* whether mlockall is in force for the process
  guards,               \* the RealtimeGuard objects of the thread, by name
  before,               \* history: the thread's schedule and affinity before construction
  ctor_failed,          \* history: a call of the latest construction failed
  dtor_active,          \* history: active_ as the latest destructor found it
  dtor_calls,           \* history: restore calls the latest destructor made
  is_running_,          \* StressTester::is_running_
  thread_busy_states_,  \* persistent per-core enabled state
  thread_is_actually_busy_flags_, \* live per-core flags (none while stopped)
  analysis_results_,    \* top_correlations of every CellStats
  apc,                  \* correlation run position: "idle" | "baseline" | "active" | "finished"
  stressed_core_id,     \* loop variable of run_correlation_analysis
  baseline_stddevs,     \* local of run_correlation_analysis
  n_updates,            \* iterations of the update loop for the current core
  busy_before,          \* history: the enabled states when the run began
  final_strength,       \* history: per sensor, the strength last computed for each core
  ui,                   \* GuiRunner::run position
  terminate_threads_,   \* GuiRunner::terminate_threads_
  g_run_measurement,    \* start and run flag of the sampler
  measurement,          \* sampler thread position
  processing,           \* processing thread position
  worker,               \* GUI worker thread position
  manual_mode_,         \* GuiRunner::manual_mode_
  manual_core_to_test_, \* GuiRunner::manual_core_to_test_
  cycle_i,              \* loop index of the GUI worker's burst
  reader_state,         \* PmTableReader: "none" | "constructed" | "threw"
  pm_table_size,        \* PmTableReader::pm_table_size
  pm_table_stream,      \* PmTableReader::pm_table_stream is good
  last_read,            \* history: bytes and reported outcome of the latest read()
  period,               \* history: sampling periods the sampler has run
  next_wakeup,          \* the sampler's deadline, in periods
  delivered,            \* history: samples handed to the processor or analysis stage
  bytes_to_read,        \* moonitor stage 1: detected table size (-1: not yet)
  data_buffer,          \* moonitor: the shared buffer, by pipeline line
  logger_state,         \* standalone logger: "init" | "running" | "exit_failure"
  logger_stream,        \* standalone logger: its pm_table_stream is good
  qs_state,             \* queue sampler: "none" | "aborted" | "sampling"
  queued,               \* history: num_measurements and bytes of each RawSample made
  buffers,              \* the LockedBuffer objects: alive, ptr_, bytes_, locked_, mmaped_
  regions,              \* history: every region acquired, with the release calls made on it
  last_ctor,            \* history: request, outcome and result of the latest LockedBuffer(bytes)
  tm_data,              \* calculate_trimmed_mean: the data of the latest call
  tm_p,                 \* calculate_trimmed_mean: its trim_percentage
  tm_result,            \* calculate_trimmed_mean: the value returned
  dq_samples,           \* drain loop: samples waiting in the SPSC ring
  dq_commands,          \* drain loop: commands waiting in the command queue
  dq_pushed,            \* history: commands pushed so far
  dq_applied,           \* history: commands applied so far
  dq_pc,                \* drain loop: "cmd" | "read" | "sleep"
  dq_work_done,         \* drain loop: work_done
  ui_pc,                \* UI thread: its position inside StressTester::stop or start
  drv,                  \* correlation driver: its position inside set_thread_busy_state
  bad_access,           \* history: an entry of the flag vector was accessed that did not exist
  bad_index,            \* history: baseline_stddevs was indexed outside its size
  line_token,           \* per line: the token that has passed stage 1 and awaits stage 2 (0: none)
  mpc,                  \* position of the buffer-backed sampler
  steady,               \* Clock::now() of that run, in units of 200 us
  run_flag,             \* g_run_measurement of that run
  buf_start,            \* the first value of next_sample_time
  buf_next_sample_time, \* the deadline of the next iteration
  buf_timestamp,        \* the timestamp taken at the top of the iteration
  buf_sample_count,     \* sample_count of the caller
  storage,              \* the pre-allocated buffer: the timestamp written to each element (-1: none)
  assert_failed,        \* history: the condition of the assert in the loop was false
  wrote_past,           \* history: an element outside the buffer was written
  sleep_cut,            \* history: the absolute sleep was interrupted before its wake time
  mb_running,           \* is_running_ of that StressTester
  mb_busy_states,       \* thread_busy_states_, the persistent choice of the GUI
  stop_flags_,          \* per worker: its stop flag (empty when cleared)
  is_busy_flag,         \* per worker: its live is_busy flag (empty when cleared)
  threads_,             \* per worker: "check", "work", "sleep", "exited" or "joined" (empty when cleared)
  stop_pc,              \* position of the caller inside stop()
  stop_i,               \* loop index of stop()
  stores,               \* the EyeDiagramStorage objects, by name
  storage_,             \* the object the reference member storage_ is bound to
  eye_state_,           \* state_ of the capturer: "IDLE" | "CAPTURING"
  last_worker_state_,   \* worker state of the previous sample
  last_rise_time_,      \* timestamp of the last rising edge, in ms
  eye_ts,               \* timestamp of the last sample, in ms
  n_processed,          \* process_sample calls so far
  last_bin_index,       \* bin_index of the last call (-1: the call did not reach it)
  bad_write,            \* history: a write outside bins or outside a row of bins
  set_to,               \* history: the object given to the last set_storage ("none": no call)
  prev_bound,           \* history: the object bound when set_storage was last called
  prev_contents,        \* history: what that object held when set_storage was called
  write_target,         \* history: the object the last call after set_storage wrote into ("none": no write)
  sample_count_,        \* samples recorded since the last reset
  sum_periods_us_,      \* sum of the periods since the last reset
  min_period_us_,       \* smallest period since the last reset
  max_period_us_,       \* largest period since the last reset
  jitter_histogram_,    \* hits per bin of deviation, bins 0 .. 2 * range
  all_periods_us_,      \* the pre-allocated array of periods
  n_reports,            \* history: reports written
  recorded,             \* history: the periods recorded since the last reset
  n_recorded,           \* history: record_sample calls so far
  bad_period_write      \* history: a write outside all_periods_us_

clockVars == <<now, g_worker_state>>
samplerVars == <<spc, sample_count, pending>>
ringVars == <<records_, readIndex_, writeIndex_>>
histVars == <<n_consumed, last_seq, last_ts, last_phase, pre_trigger_ts>>
captureVars == <<state, last_rise_time, current_trace>>
binVars == <<accumulation_buffer, max_acc, pushed, finalizations, popped_empty>>
fillVars == <<write_buffer_ptr, fill_i, fill_bin>>
displayVars == <<display_data, gui_display_pointers_>>
renderVars == <<rpc, r_i, plot>>
cmdVars == <<command_queue_, n_commands, max_accumulations_, last_cmd>>

\* the eye-diagram pipeline
pipelineVars == <<clockVars, samplerVars, ringVars, histVars, captureVars, binVars,
                  fillVars, displayVars, renderVars, cmdVars, ppc, work_done>>

\* the stimulus worker's burst
burstVars == <<g_run_worker, wpc, w_cycles, w_i, bursts>>

\* a thread under a RealtimeGuard
guardVars == <<tpc, thread_sched, thread_affinity, memory_locked, guards, before,
               ctor_failed, dtor_active, dtor_calls>>

\* the per-core stress threads
stressVars == <<is_running_, thread_busy_states_, thread_is_actually_busy_flags_>>
\* the correlation run
analysisVars == <<analysis_results_, apc, stressed_core_id, baseline_stddevs, n_updates,
                  busy_before, final_strength>>

\* the threads of GuiRunner::run
shutdownVars == <<ui, terminate_threads_, g_run_measurement, measurement, processing,
                  worker, manual_mode_, manual_core_to_test_, cycle_i>>

\* the blob readers and the samplers that call them
readerVars == <<reader_state, pm_table_size, pm_table_stream, last_read, period,
                next_wakeup, delivered, bytes_to_read, data_buffer, logger_state,
                logger_stream, qs_state, queued>>

\* the LockedBuffer objects and the memory they hold
lockedVars == <<buffers, regions, last_ctor>>

\* a call of calculate_trimmed_mean
statsVars == <<tm_data, tm_p, tm_result>>

\* the processing thread's loop, with the sampler never stopping
drainVars == <<dq_samples, dq_commands, dq_pushed, dq_applied, dq_pc, dq_work_done>>

\* the UI thread and the correlation driver inside the StressTester
raceVars == <<ui_pc, drv, bad_access>>

\* the correlation run beside the packets of the pipeline
packetVars == <<bad_index>>

\* the lines of the taskflow pipeline between its two stages
pipeVars == <<line_token>>

\* measurement_thread_func on a pre-allocated sample buffer, with its clock
bufVars == <<mpc, steady, run_flag, buf_start, buf_next_sample_time, buf_timestamp, buf_sample_count, storage, assert_failed, wrote_past, sleep_cut>>

\* StressTester with its worker threads, as start() and stop() see them
modebVars == <<mb_running, mb_busy_states, stop_flags_, is_busy_flag, threads_, stop_pc, stop_i>>

\* an EyeCapturer and the two EyeDiagramStorage objects of the double buffer
eyeVars == <<stores, storage_, eye_state_, last_worker_state_, last_rise_time_, eye_ts, n_processed, last_bin_index, bad_write, set_to, prev_bound, prev_contents, write_target>>

\* the JitterMonitor of the producer stage
jitterVars == <<sample_count_, sum_periods_us_, min_period_us_, max_period_us_, jitter_histogram_, all_periods_us_, n_reports, recorded, n_recorded, bad_period_write>>

\* everything outside the steps of the eye-diagram pipeline
sideVars == <<burstVars, guardVars, stressVars, analysisVars, shutdownVars, readerVars,
              lockedVars, statsVars, drainVars, raceVars, packetVars, pipeVars,
    bufVars, modebVars, eyeVars, jitterVars>>
\* what a step of the stimulus worker's burst leaves alone, besides the pipeline
besideBurst ==
  <<guardVars, stressVars, analysisVars, shutdownVars, readerVars, lockedVars,
   statsVars, drainVars, raceVars, packetVars, pipeVars, bufVars, modebVars, eyeVars,
    jitterVars>>
\* what a step of a guarded thread leaves alone
besideGuard ==
  <<pipelineVars, burstVars, stressVars, analysisVars, shutdownVars, readerVars, lockedVars,
   statsVars, drainVars, raceVars, packetVars, pipeVars, bufVars, modebVars, eyeVars,
    jitterVars>>
\* what a step of the stress tester or of the correlation run leaves alone
besideAnalysis ==
  <<pipelineVars, burstVars, guardVars, shutdownVars, readerVars, lockedVars,
   statsVars, drainVars, raceVars, packetVars, pipeVars, bufVars, modebVars, eyeVars,
    jitterVars>>
\* what a step of a thread of GuiRunner::run leaves alone, besides the pipeline
besideThreads ==
  <<burstVars, guardVars, stressVars, analysisVars, readerVars, lockedVars, statsVars,
   drainVars, raceVars, packetVars, pipeVars, bufVars, modebVars, eyeVars, jitterVars>>
\* what a step of a blob reader or of its sampler leaves alone
besideReader ==
  <<pipelineVars, burstVars, guardVars, stressVars, analysisVars, shutdownVars, lockedVars,
   statsVars, drainVars, raceVars, packetVars, pipeVars, bufVars, modebVars, eyeVars,
    jitterVars>>
\* what an operation on a LockedBuffer leaves alone
besideLocked ==
  <<pipelineVars, burstVars, guardVars, stressVars, analysisVars, shutdownVars, readerVars,
   statsVars, drainVars, raceVars, packetVars, pipeVars, bufVars, modebVars, eyeVars,
    jitterVars>>
\* what a call of calculate_trimmed_mean leaves alone
besideStats ==
  <<pipelineVars, burstVars, guardVars, stressVars, analysisVars, shutdownVars, readerVars,
    lockedVars, drainVars, raceVars, packetVars, pipeVars, bufVars, modebVars, eyeVars,
    jitterVars>>
\* what a step of the UI thread or of the driver inside the StressTester
\* leaves alone, besides the correlation run
besideRace ==
  <<pipelineVars, burstVars, guardVars, shutdownVars, readerVars, lockedVars, statsVars,
    drainVars, packetVars, pipeVars, bufVars, modebVars, eyeVars, jitterVars>>
\* what a step of the drain loop leaves alone
besideDrain ==
  <<pipelineVars, burstVars, guardVars, stressVars, analysisVars, shutdownVars, readerVars,
    lockedVars, statsVars, raceVars, packetVars, pipeVars, bufVars, modebVars, eyeVars,
    jitterVars>>
\* what a step of the run or a packet leaves alone, besides the stress threads and the run
besidePacket ==
  <<pipelineVars, burstVars, guardVars, shutdownVars, readerVars, lockedVars, statsVars,
    drainVars, raceVars, pipeVars, bufVars, modebVars, eyeVars, jitterVars>>
\* what a stage of the taskflow pipeline leaves alone
besidePipe ==
  <<pipelineVars, burstVars, guardVars, stressVars, analysisVars, shutdownVars,
    lockedVars, statsVars, drainVars, raceVars, packetVars, bufVars, modebVars,
    eyeVars, jitterVars>>
\* what the buffer-backed sampler leaves alone
besideBuf ==
  <<pipelineVars, burstVars, guardVars, stressVars, analysisVars, shutdownVars,
    readerVars, lockedVars, statsVars, drainVars, raceVars, packetVars, pipeVars,
    modebVars, eyeVars, jitterVars>>
\* what the StressTester and its workers leave alone
besideModeB ==
  <<pipelineVars, burstVars, guardVars, stressVars, analysisVars, shutdownVars,
    readerVars, lockedVars, statsVars, drainVars, raceVars, packetVars, pipeVars,
    bufVars, eyeVars, jitterVars>>
\* what the EyeCapturer leaves alone
besideEye ==
  <<pipelineVars, burstVars, guardVars, stressVars, analysisVars, shutdownVars,
    readerVars, lockedVars, statsVars, drainVars, raceVars, packetVars, pipeVars,
    bufVars, modebVars, jitterVars>>
\* what the JitterMonitor leaves alone
besideJitter ==
  <<pipelineVars, burstVars, guardVars, stressVars, analysisVars, shutdownVars,
    readerVars, lockedVars, statsVars, drainVars, raceVars, packetVars, pipeVars,
    bufVars, modebVars, eyeVars>>

vars == <<pipelineVars, sideVars>>

(***************************************************************************)
(* Helpers on sequences.                                                   *)
(***************************************************************************)
Last(s) == s[Len(s)]

\* the last n elements of s
Suffix(s, n) == SubSeq(s, Len(s) - n + 1, Len(s))

\* the sum of s, by halves
RECURSIVE SeqSum(_)
SeqSum(s) ==
  IF s = <<>> THEN 0
  ELSE IF Len(s) = 1 THEN s[1]
  ELSE LET h == Len(s) \div 2
       IN SeqSum(SubSeq(s, 1, h)) + SeqSum(SubSeq(s, h + 1, Len(s)))

\* the number of elements that an ascending sort puts before s[i]
Rank(s, i) ==
  Cardinality({j \in 1 .. Len(s) : s[j] < s[i] \/ (s[j] = s[i] /\ j < i)})

\* std::ranges::sort
Sort(s) ==
  IF s = <<>> THEN <<>>
  ELSE LET rank == [i \in 1 .. Len(s) |-> Rank(s, i)]
       IN [r \in 1 .. Len(s) |-> s[CHOOSE i \in 1 .. Len(s) : rank[i] = r - 1]]

\* std::ranges::min_element: the first smallest element
RECURSIVE min_element(_)
min_element(s) ==
  IF Len(s) = 1 THEN s[1]
  ELSE LET m == min_element(Tail(s)) IN IF s[1] <= m THEN s[1] ELSE m

\* std::ranges::max_element: the first largest element
RECURSIVE max_element(_)
max_element(s) ==
  IF Len(s) = 1 THEN s[1]
  ELSE LET m == max_element(Tail(s)) IN IF s[1] >= m THEN s[1] ELSE m

(***************************************************************************)
(* Statistics.  A float result is kept as the exact fraction num/den.      *)
(***************************************************************************)
Frac(n, d) == [num |-> n, den |-> d]

\* a <= b for fractions with positive denominators
FracLeq(a, b) == a.num * b.den <= b.num * a.den

Pow2(k) == 2 ^ k

\* the number of binary digits of x
BitLen(x) == CHOOSE k \in 0 .. 30 : x < Pow2(k) /\ (k = 0 \/ Pow2(k - 1) <= x)

\* round to nearest, ties to even, of quo + rem/den
RoundEven(quo, rem, den) ==
  IF 2 * rem > den \/ (2 * rem = den /\ quo % 2 = 1) THEN quo + 1 ELSE quo

\* the binary exponent s at which p * 2^s / 100 has a 24-bit mantissa
Float32Shift(p) ==
  CHOOSE s \in 23 .. 30 :
    /\ (p * Pow2(s)) \div 100 >= Pow2(23)
    /\ (s = 23 \/ (p * Pow2(s - 1)) \div 100 < Pow2(23))

\* p / 100.0f in single precision for the percentages 0 .. 100: the value
\* m * 2^(-s)
Float32Quotients ==
  [p \in 0 .. 100 |->
     IF p = 0 THEN [m |-> 0, s |-> 0]
     ELSE LET s == Float32Shift(p)
          IN [m |-> RoundEven((p * Pow2(s)) \div 100, (p * Pow2(s)) % 100, 100), s |-> s]]

\* trim_percentage / 100.0f
Float32Div100(p) == Float32Quotients[p]

\* static_cast<size_t>(q * n) for the single-precision q and n < 256: the
\* product m * n is formed in two halves, rounded to 24 bits and truncated
Float32MulTrunc(q, n) ==
  LET a0 == (q.m \div 256) * n
      b0 == (q.m % 256) * n
      a == a0 + (b0 \div 256)
      b == b0 % 256
      d == IF BitLen(a) > 16 THEN BitLen(a) - 16 ELSE 0
      mr == RoundEven(a * Pow2(8 - d) + (b \div Pow2(d)), b % Pow2(d), Pow2(d))
  IN mr \div Pow2(q.s - d)

\* the trim percentages passed
TrimPercents == {0, TrimPercent, 40, 42, 49}

\* (trim_percentage / 100.0f) * n evaluated in float, for the percentages
\* passed and the sizes of up to 150
TrimCounts ==
  [p \in TrimPercents |-> [n \in 0 .. 150 |-> Float32MulTrunc(Float32Div100(p), n)]]

\* trim_count
trim_count_of(trim_percentage, n) == TrimCounts[trim_percentage][n]

calculate_trimmed_mean(data, trim_percentage) ==
  IF data = <<>> THEN Frac(0, 1)
  ELSE
    LET sorted == Sort(data)
        n == Len(sorted)
        trim_count == trim_count_of(trim_percentage, n)
    IN IF 2 * trim_count >= n
       THEN IF n % 2 = 0
            THEN Frac(sorted[n \div 2] + sorted[(n \div 2) + 1], 2)
            ELSE Frac(sorted[(n \div 2) + 1], 1)
       ELSE LET kept == SubSeq(sorted, trim_count + 1, n - trim_count)
            IN Frac(SeqSum(kept), Len(kept))

(***************************************************************************)
(* Time.                                                                   *)
(***************************************************************************)
\* std::chrono::duration_cast<milliseconds>: truncation toward zero
DurationMs(ticks) ==
  IF ticks >= 0 THEN ticks \div TicksPerMs ELSE -((-ticks) \div TicksPerMs)

\* the sampler's deadline: one period per sample taken since the start
next_sample_time == sample_count * TicksPerMs

(***************************************************************************)
(* RawSample and DisplayData.                                              *)
(***************************************************************************)
Tracked(i) == \E j \in Sensors : interesting_index_[j + 1] = i

\* sensor_to_storage_idx
StorageIdx(i) == CHOOSE j \in Sensors : interesting_index_[j + 1] = i

\* the blob read as sample number seq: a tracked sensor follows the worker phase,
\* with a ripple from read to read and an offset from sensor to sensor; the other
\* sensors are constant
Blob(seq, ws) ==
  [i \in 0 .. (NumMeasurements - 1) |->
     IF Tracked(i) THEN Baseline + Swing * ws + (seq % Ripple) + i ELSE 0]

\* `seq` is history: the position of the sample in production order
RawSample(seq, ts, ws) ==
  [seq |-> seq, timestamp |-> ts, worker_state |-> ws,
   measurements |-> Blob(seq, ws), num_measurements |-> NumMeasurements]

\* a freshly constructed DisplayData of sensor slot i
NewDisplayData(i) ==
  [x_data |-> <<>>, y_data_mean |-> <<>>, y_data_max |-> <<>>, y_data_min |-> <<>>,
   original_sensor_index |-> interesting_index_[i + 1],
   accumulation_count |-> 0,
   window_before_ms |-> window_before_ms, window_after_ms |-> 150]

\* DisplayData::clear
ClearDisplay(d) ==
  [d EXCEPT !.x_data = <<>>, !.y_data_mean = <<>>, !.y_data_max = <<>>,
            !.y_data_min = <<>>, !.accumulation_count = 0]

Other(b) == IF b = "A" THEN "B" ELSE "A"

EmptyBins == [j \in Sensors |-> [b \in Bins |-> <<>>]]

(***************************************************************************)
(* SPSC ring (folly::ProducerConsumerQueue).                               *)
(***************************************************************************)
NextIndex(i) == (i + 1) % QueueSize

isEmpty == readIndex_ = writeIndex_

isFull == NextIndex(writeIndex_) = readIndex_

\* a read that hands out the newest record instead of the oldest
RingFrontNewest == records_[(writeIndex_ + QueueSize - 1) % QueueSize]

\* ProducerConsumerQueue::read: the record handed to the consumer
RingFront == records_[readIndex_]

\* a read that advances the consumer index past two records
RingPopSkip == NextIndex(NextIndex(readIndex_))

\* ProducerConsumerQueue::read: the consumer index after the read
RingPop == NextIndex(readIndex_)

\* the samples in the ring, oldest first
RECURSIVE RingFrom(_)
RingFrom(i) == IF i = writeIndex_ THEN <<>>
               ELSE <<records_[i]>> \o RingFrom(NextIndex(i))

RingContents == RingFrom(readIndex_)

(***************************************************************************)
(* Commands.                                                               *)
(***************************************************************************)
\* the cores the "Test Core" slider can select
Cores == {1}

\* the depths a ChangeAccumulations command can carry
NewCounts == 1 .. MaxAccumulations

\* `submitted` is history: the clock value at which the command was pushed;
\* `id` is history: the position of the command in push order
ChangeCoreCmd(k) ==
  [type |-> "ChangeCore", new_core_id |-> k, submitted |-> now, id |-> n_commands + 1]

ChangeAccumulationsCmd(n) ==
  [type |-> "ChangeAccumulations", new_count |-> n, id |-> n_commands + 1]

\* a default-constructed GuiCommand: the first alternative, value-initialized
DefaultCmd == [type |-> "ChangeCore", new_core_id |-> 0, submitted |-> 0, id |-> 0]

\* a try_pop that takes the newest command
try_pop_back(queue, cmd) ==
  IF queue = <<>>
  THEN [ok |-> FALSE, queue |-> queue, cmd |-> cmd]
  ELSE [ok |-> TRUE, queue |-> SubSeq(queue, 1, Len(queue) - 1), cmd |-> Last(queue)]

\* CommandQueue::try_pop: the return value, the queue and the output argument
try_pop(queue, cmd) ==
  IF queue = <<>>
  THEN [ok |-> FALSE, queue |-> queue, cmd |-> cmd]
  ELSE [ok |-> TRUE, queue |-> Tail(queue), cmd |-> Head(queue)]

(***************************************************************************)
(* Initial state: GuiRunner constructed, threads launched.                 *)
(***************************************************************************)
\* no burst launched yet
InitBurst ==
  /\ g_run_worker = FALSE
  /\ wpc = "idle"
  /\ w_cycles = 0
  /\ w_i = 0
  /\ bursts = 0

\* the two RealtimeGuard objects a thread may hold: the one it constructs and
\* the one it moves it into
GuardIds == {"thread_rt", "moved_to"}
Cpus == 0 .. (NumCpus - 1)
Policies == {"SCHED_OTHER", "SCHED_FIFO", "SCHED_RR"}
\* a policy and priority the kernel accepts
ValidSched(policy, priority) ==
  IF policy = "SCHED_OTHER" THEN priority = 0 ELSE priority \in 1 .. MaxPriority
\* storage of a guard that is not (or no longer) an object
NoGuard ==
  [alive |-> FALSE, active_ |-> FALSE, locked_memory_ |-> FALSE, core_id_ |-> -1,
   new_priority_ |-> 0, old_policy_ |-> "SCHED_OTHER", old_param_ |-> 0,
   old_cpuset_ |-> {}, saved_affinity_ |-> FALSE]

\* no thread created yet, no guard constructed
InitGuard ==
  /\ tpc = "unborn"
  /\ thread_sched = [policy |-> "SCHED_OTHER", priority |-> 0]
  /\ thread_affinity = Cpus
  /\ memory_locked = FALSE
  /\ guards = [g \in GuardIds |-> NoGuard]
  /\ before = [sched |-> thread_sched, affinity |-> thread_affinity]
  /\ ctor_failed = FALSE
  /\ dtor_active = FALSE
  /\ dtor_calls = 0

StressCores == 0 .. (NumCores - 1)
\* the cell of the PM table whose correlation list is followed
Cells == {1}

\* StressTester and AnalysisManager constructed: threads stopped, every core
\* enabled, no PM table packet processed yet
InitAnalysis ==
  /\ is_running_ = FALSE
  /\ thread_busy_states_ = [c \in StressCores |-> TRUE]
  /\ thread_is_actually_busy_flags_ = <<>>
  /\ analysis_results_ = <<>>
  /\ apc = "idle"
  /\ stressed_core_id = 0
  /\ baseline_stddevs = <<>>
  /\ n_updates = 0
  /\ busy_before = [persistent |-> thread_busy_states_, live |-> <<>>]
  /\ final_strength = <<>>

\* the core the sampler is pinned to
measurement_core_ == 0
\* cores the slider of the GUI can select
TestCores == 0 .. 1

\* GuiRunner constructed, run() not yet called
InitThreads ==
  /\ ui = "init"
  /\ terminate_threads_ = FALSE
  /\ g_run_measurement = FALSE
  /\ measurement = "unborn"
  /\ processing = "unborn"
  /\ worker = "unborn"
  /\ manual_mode_ = FALSE
  /\ manual_core_to_test_ = 1
  /\ cycle_i = 0

Lines == 0 .. (NumLines - 1)
\* a default-constructed TimestampedData: no data of any period
EmptyData == [data_period |-> 0, bytes |-> 0]

\* no reader constructed, no program started
InitReader ==
  /\ reader_state = "none"
  /\ pm_table_size = 0
  /\ pm_table_stream = FALSE
  /\ last_read = [bytes |-> 0, reported |-> "none"]
  /\ period = 0
  /\ next_wakeup = 0
  /\ delivered = <<>>
  /\ bytes_to_read = -1
  /\ data_buffer = [l \in Lines |-> EmptyData]
  /\ logger_state = "init"
  /\ logger_stream = FALSE
  /\ qs_state = "none"
  /\ queued = <<>>

\* the two LockedBuffer objects followed: the source and the target of a move
BufIds == {1, 2}
\* a LockedBuffer holding nothing: ptr_ = nullptr (0), bytes_ = 0, no flags
EmptyBuffer == [ptr_ |-> 0, bytes_ |-> 0, locked_ |-> FALSE, mmaped_ |-> FALSE]
\* an object not constructed yet, or destroyed
NoBuffer == [alive |-> FALSE, ptr_ |-> 0, bytes_ |-> 0, locked_ |-> FALSE, mmaped_ |-> FALSE]

\* no LockedBuffer constructed, nothing acquired
InitLocked ==
  /\ buffers = [b \in BufIds |-> NoBuffer]
  /\ regions = <<>>
  /\ last_ctor = [id |-> 0, bytes |-> 0, outcome |-> "none", result |-> EmptyBuffer]

\* the processing thread at the top of its loop, both queues empty
InitDrain ==
  /\ dq_samples = 0
  /\ dq_commands = <<>>
  /\ dq_pushed = 0
  /\ dq_applied = 0
  /\ dq_pc = "cmd"
  /\ dq_work_done = FALSE

\* the driver has no call in progress
NoCall == [pc |-> "off", core_id |-> 0, is_busy |-> FALSE]

\* the UI thread between two handlers, no correlation run submitted
InitRace ==
  /\ ui_pc = "idle"
  /\ drv = NoCall
  /\ bad_access = FALSE

\* no access of baseline_stddevs yet
InitPacket ==
  bad_index = FALSE

\* no token in the pipeline
InitPipe ==
  line_token = [l \in Lines |-> 0]

\* the sampler thread is created and waits for the run flag
InitBuf ==
  /\ mpc = "await"
  /\ steady = 0
  /\ run_flag = FALSE
  /\ buf_start = 0
  /\ buf_next_sample_time = 0
  /\ buf_timestamp = 0
  /\ buf_sample_count = 0
  /\ storage = [i \in 0 .. (StorageSize - 1) |-> -1]
  /\ assert_failed = FALSE
  /\ wrote_past = FALSE
  /\ sleep_cut = FALSE

\* the worker indices of that StressTester
StressThreads == 0 .. (NumStressThreads - 1)

\* a constructed StressTester: not running, every worker chosen busy
InitModeB ==
  /\ mb_running = FALSE
  /\ mb_busy_states = [c \in StressThreads |-> TRUE]
  /\ stop_flags_ = <<>>
  /\ is_busy_flag = <<>>
  /\ threads_ = <<>>
  /\ stop_pc = "idle"
  /\ stop_i = 0

\* EyeDiagramStorage(interesting_indices, reserve, window_before_ms, window_after_ms)
EyeStorage(indices, wb, wa) ==
  [window_before_ms |-> wb,
   window_after_ms |-> wa,
   zero_offset_bins |-> wb,
   num_bins |-> wb + wa,
   original_sensor_indices |-> indices,
   bins |-> [j \in 0 .. (Len(indices) - 1) |-> [k \in 0 .. (wb + wa - 1) |-> <<>>]],
   event_count |-> 0]

NewEyeStorage == EyeStorage(interesting_index_, EyeBefore, EyeAfter)

\* EyeCapturer::EyeCapturer: the reverse map, original sensor index to storage index
sensor_to_storage_idx_ ==
  [s \in {interesting_index_[i] : i \in 1 .. Len(interesting_index_)} |->
     (CHOOSE i \in 1 .. Len(interesting_index_) :
        /\ interesting_index_[i] = s
        /\ \A h \in (i + 1) .. Len(interesting_index_) : interesting_index_[h] # s) - 1]

\* both storages constructed for the tracked sensors; the capturer constructed on A
InitEye ==
  /\ stores = [b \in Buffers |-> NewEyeStorage]
  /\ storage_ = "A"
  /\ eye_state_ = "IDLE"
  /\ last_worker_state_ = 0
  /\ last_rise_time_ = 0
  /\ eye_ts = 0
  /\ n_processed = 0
  /\ last_bin_index = -1
  /\ bad_write = FALSE
  /\ set_to = "none"
  /\ prev_bound = "none"
  /\ prev_contents = NewEyeStorage
  /\ write_target = "none"

\* jitter_histogram_.assign(2 * histogram_range_us_ + 1, 0)
NewHistogram == [b \in 0 .. (2 * histogram_range_us_) |-> 0]

\* JitterMonitor(target_period_us, report_interval, histogram_range_us): resize, reset
InitJitter ==
  /\ sample_count_ = 0
  /\ sum_periods_us_ = 0
  /\ min_period_us_ = LLONG_MAX
  /\ max_period_us_ = 0
  /\ jitter_histogram_ = NewHistogram
  /\ all_periods_us_ = [i \in 0 .. (report_interval_ - 1) |-> 0]
  /\ n_reports = 0
  /\ recorded = <<>>
  /\ n_recorded = 0
  /\ bad_period_write = FALSE

\* calculate_trimmed_mean not called yet
InitStats ==
  /\ tm_data = <<>>
  /\ tm_p = 0
  /\ tm_result = Frac(0, 1)

InitSide ==
  /\ InitBurst /\ InitGuard /\ InitAnalysis /\ InitThreads /\ InitReader /\ InitLocked
  /\ InitStats /\ InitDrain /\ InitRace /\ InitPacket /\ InitPipe /\ InitBuf /\ InitModeB
  /\ InitEye /\ InitJitter

Init ==
  /\ now = 0
  /\ g_worker_state = 0
  /\ spc = "wait"
  /\ sample_count = 0
  /\ pending = NoSample
  /\ records_ = [i \in 0 .. (QueueSize - 1) |-> NoSample]
  /\ readIndex_ = 0
  /\ writeIndex_ = 0
  /\ n_consumed = 0
  /\ last_seq = 0
  /\ last_ts = 0
  /\ last_phase = 0
  /\ pre_trigger_ts = -1
  /\ command_queue_ = <<>>
  /\ n_commands = 0
  /\ max_accumulations_ \in NewCounts
  /\ last_cmd = 0
  /\ ppc = "cmd"
  /\ work_done = FALSE
  /\ state = "IDLE"
  /\ last_rise_time = 0
  /\ current_trace = <<>>
  /\ accumulation_buffer = EmptyBins
  /\ max_acc = max_accumulations_
  /\ pushed = EmptyBins
  /\ finalizations = 0
  /\ popped_empty = FALSE
  /\ write_buffer_ptr = "B"
  /\ fill_i = 0
  /\ fill_bin = 0
  /\ display_data = [b \in Buffers |-> [i \in Sensors |-> NewDisplayData(i)]]
  /\ gui_display_pointers_ = [i \in Sensors |-> "A"]
  /\ rpc = "controls"
  /\ r_i = 0
  /\ plot = "A"
  /\ InitSide

(***************************************************************************)
(* Stimulus worker.                                                        *)
(***************************************************************************)
\* worker_thread_func: busy phase begins
WorkerBusy ==
  /\ g_worker_state = 0
  /\ g_worker_state' = 1
  /\ UNCHANGED <<now, samplerVars, ringVars, histVars, captureVars, binVars,
                 fillVars, displayVars, renderVars, cmdVars, ppc, work_done>>
  /\ UNCHANGED sideVars

\* worker_thread_func: waiting phase begins
WorkerWait ==
  /\ g_worker_state = 1
  /\ g_worker_state' = 0
  /\ UNCHANGED <<now, samplerVars, ringVars, histVars, captureVars, binVars,
                 fillVars, displayVars, renderVars, cmdVars, ppc, work_done>>
  /\ UNCHANGED sideVars

(***************************************************************************)
(* Stimulus worker, one burst at a time: the experiment loop launches      *)
(* worker_thread_func, signals it to start and joins it.                   *)
(***************************************************************************)
\* the pipeline variables a step of the worker leaves alone
phaseRest == <<now, samplerVars, ringVars, histVars, captureVars, binVars,
               fillVars, displayVars, renderVars, cmdVars, ppc, work_done>>
besidePhase == <<phaseRest, besideBurst>>

\* the experiment loop resets the start signal and launches the worker thread
BurstLaunch ==
  /\ wpc = "idle"
  /\ bursts < MaxBursts
  /\ bursts' = bursts + 1
  /\ g_run_worker' = FALSE
  /\ wpc' = "spin"
  /\ \E c \in 0 .. MaxCycles : w_cycles' = c
  /\ UNCHANGED <<w_i, g_worker_state, besidePhase>>

\* the experiment loop signals the worker to start
BurstGo ==
  /\ wpc = "spin"
  /\ ~g_run_worker
  /\ g_run_worker' = TRUE
  /\ UNCHANGED <<wpc, w_cycles, w_i, bursts, g_worker_state, besidePhase>>

\* worker_thread_func: the polite spin ends, the loop over the cycles begins
WorkerStart ==
  /\ wpc = "spin"
  /\ g_run_worker
  /\ wpc' = "cycle"
  /\ w_i' = 0
  /\ UNCHANGED <<g_run_worker, w_cycles, bursts, g_worker_state, besidePhase>>

\* a busy phase that is never followed by the store of 0
CycleWaitNoStore ==
  /\ wpc = "busy"
  /\ w_i' = w_i + 1
  /\ wpc' = "cycle"
  /\ UNCHANGED <<g_run_worker, w_cycles, bursts, g_worker_state, besidePhase>>

\* worker_thread_func: g_worker_state.store(1), then the busy loop
CycleBusy ==
  /\ wpc = "cycle"
  /\ w_i < w_cycles
  /\ g_worker_state' = 1
  /\ wpc' = "busy"
  /\ UNCHANGED <<g_run_worker, w_cycles, w_i, bursts, besidePhase>>

\* worker_thread_func: g_worker_state.store(0), then the sleep and ++i
CycleWait ==
  /\ wpc = "busy"
  /\ g_worker_state' = 0
  /\ w_i' = w_i + 1
  /\ wpc' = "cycle"
  /\ UNCHANGED <<g_run_worker, w_cycles, bursts, besidePhase>>

\* worker_thread_func returns after its cycles; the experiment loop joins it
WorkerReturn ==
  /\ wpc = "cycle"
  /\ w_i >= w_cycles
  /\ wpc' = "idle"
  /\ UNCHANGED <<g_run_worker, w_cycles, w_i, bursts, g_worker_state, besidePhase>>

(***************************************************************************)
(* Sampler.  The clock is read at the sampling instants only, so it        *)
(* advances with the sampler's wait.                                       *)
(***************************************************************************)
Max2(a, b) == IF a >= b THEN a ELSE b

\* wait_until returns on time, or one sample period late
Lateness == {0, TicksPerMs}

\* ProducerConsumerQueue::write of sample s
RingWrite(s) ==
  /\ records_' = [records_ EXCEPT ![writeIndex_] = s]
  /\ writeIndex_' = NextIndex(writeIndex_)
  /\ UNCHANGED readIndex_

\* wait_until(deadline) returns on time or late; timestamp, phase and blob are
\* taken and the sample is enqueued, unless the ring is full
SamplerSample ==
  /\ spc = "wait"
  /\ sample_count < MaxSamples
  /\ \E late \in Lateness :
       LET ts == Max2(now, next_sample_time) + late
           s == RawSample(sample_count + 1, ts, g_worker_state)
       IN /\ now' = ts
          /\ IF isFull
             THEN pending' = s /\ spc' = "write" /\ UNCHANGED ringVars
             ELSE RingWrite(s) /\ UNCHANGED <<pending, spc>>
  /\ sample_count' = sample_count + 1
  /\ UNCHANGED <<g_worker_state, histVars, captureVars, binVars, fillVars,
                 displayVars, renderVars, cmdVars, ppc, work_done>>
  /\ UNCHANGED sideVars

\* the ring was full: the sampler spins until a slot is free, then enqueues
SamplerRetry ==
  /\ spc = "write"
  /\ ~isFull
  /\ RingWrite(pending)
  /\ pending' = NoSample
  /\ spc' = "wait"
  /\ UNCHANGED <<clockVars, sample_count, histVars, captureVars, binVars, fillVars,
                 displayVars, renderVars, cmdVars, ppc, work_done>>
  /\ UNCHANGED sideVars

(***************************************************************************)
(* Processing thread, step 1: one GUI command per outer iteration.         *)
(***************************************************************************)
\* a ChangeCoreCmd that clears the trigger bin only
ClearBinsPartial(buf) ==
  [j \in Sensors |-> [b \in Bins |-> IF b = 0 THEN <<>> ELSE buf[j][b]]]

\* ChangeCoreCmd: bin.clear() for every bin of every sensor
ClearBins(buf) == [j \in Sensors |-> [b \in Bins |-> <<>>]]

ProcCommand ==
  /\ ppc = "cmd"
  /\ ppc' = "read"
  /\ work_done' = FALSE
  /\ LET popped == try_pop(command_queue_, DefaultCmd)
         cmd == popped.cmd
     IN
     IF ~popped.ok
     THEN UNCHANGED <<cmdVars, captureVars, binVars>>
     ELSE /\ command_queue_' = popped.queue
          /\ last_cmd' = cmd.id
          /\ UNCHANGED n_commands
          /\ IF cmd.type = "ChangeCore"
             THEN /\ accumulation_buffer' = ClearBins(accumulation_buffer)
                  /\ current_trace' = <<>>
                  /\ state' = "IDLE"
                  /\ pushed' = EmptyBins
                  /\ finalizations' = 0
                  /\ UNCHANGED <<max_accumulations_, last_rise_time, max_acc, popped_empty>>
             ELSE /\ max_accumulations_' = cmd.new_count
                  /\ UNCHANGED <<captureVars, binVars>>
  /\ UNCHANGED <<clockVars, samplerVars, ringVars, histVars, fillVars,
                 displayVars, renderVars>>
  /\ UNCHANGED sideVars

(***************************************************************************)
(* Processing thread, step 2: consume one RawSample.                       *)
(***************************************************************************)
\* step a) for one sample of the trace: push its tracked values into its bin
PushSample(buf, s, rise) ==
  LET bin_idx == DurationMs(s.timestamp - rise) IN
  IF bin_idx >= 0 /\ bin_idx < num_bins
  THEN [j \in Sensors |->
         [b \in Bins |->
           IF b = bin_idx /\ interesting_index_[j + 1] < s.num_measurements
           THEN Append(buf[j][b], s.measurements[interesting_index_[j + 1]])
           ELSE buf[j][b]]]
  ELSE buf

\* step a) regrid current_trace into the accumulation buffer
RECURSIVE BinTrace(_, _, _)
BinTrace(buf, trace, rise) ==
  IF trace = <<>> THEN buf
  ELSE BinTrace(PushSample(buf, Head(trace), rise), Tail(trace), rise)

\* a trim that stops one value above the cap
RECURSIVE TrimDequeLoose(_, _)
TrimDequeLoose(d, cap) ==
  IF Len(d) > cap + 1 THEN TrimDequeLoose(Tail(d), cap) ELSE d

\* a trim that pops from the back
RECURSIVE TrimDequeBack(_, _)
TrimDequeBack(d, cap) ==
  IF Len(d) > cap THEN TrimDequeBack(SubSeq(d, 1, Len(d) - 1), cap) ELSE d

\* step b) for one deque: pop from the front while it is longer than the cap;
\* pop_front() on an empty deque is undefined, the deque is taken as still empty
RECURSIVE TrimDeque(_, _)
TrimDeque(d, cap) == IF Len(d) > cap /\ d # <<>> THEN TrimDeque(Tail(d), cap) ELSE d

\* the loop of step b) reaches pop_front() with the deque empty
RECURSIVE PopsFromEmpty(_, _)
PopsFromEmpty(d, cap) ==
  IF Len(d) > cap THEN (IF d = <<>> THEN TRUE ELSE PopsFromEmpty(Tail(d), cap)) ELSE FALSE

\* step b) trim the accumulation buffer to max size
TrimBuffer(buf, cap) == [j \in Sensors |-> [b \in Bins |-> TrimDeque(buf[j][b], cap)]]

\* target_display.clear(); target_display.window_after_ms = period_ms_
ResetDisplay(d) == [ClearDisplay(d) EXCEPT !.window_after_ms = period_ms_]

\* x_data.push_back(bin_idx)
PushX(d, bin_idx) == [d EXCEPT !.x_data = Append(@, bin_idx)]

\* statistics with minimum and maximum exchanged
BinStatsSwapped(d, bin_vec) ==
  [d EXCEPT !.y_data_mean = Append(@, calculate_trimmed_mean(bin_vec, TrimPercent)),
            !.y_data_min = Append(@, max_element(bin_vec)),
            !.y_data_max = Append(@, min_element(bin_vec)),
            !.accumulation_count = Len(bin_vec)]

\* the statistics of one populated bin
BinStats(d, bin_vec) ==
  [d EXCEPT !.y_data_mean = Append(@, calculate_trimmed_mean(bin_vec, TrimPercent)),
            !.y_data_min = Append(@, min_element(bin_vec)),
            !.y_data_max = Append(@, max_element(bin_vec)),
            !.accumulation_count = Len(bin_vec)]

\* step c) for one sensor, the loop over the bins from bin_idx on
RECURSIVE FillBins(_, _, _)
FillBins(d, sensor_bins, bin_idx) ==
  IF bin_idx >= num_bins THEN d
  ELSE FillBins(IF sensor_bins[bin_idx] # <<>>
                THEN BinStats(PushX(d, bin_idx), sensor_bins[bin_idx])
                ELSE d,
                sensor_bins, bin_idx + 1)

\* step c) for one sensor
FillDisplay(d, sensor_bins) == FillBins(ResetDisplay(d), sensor_bins, 0)

\* a publish that stores the buffer that was not written
PublishTargetOther == Other(write_buffer_ptr)

\* the buffer the processor stores into a sensor's published pointer
PublishTarget == write_buffer_ptr

\* One pass of the inner loop: spsc_queue_.read(sample) and the processing of the
\* sample.  With stepwise = FALSE a finalization (steps a to e) is one step; with
\* stepwise = TRUE steps c), d), e) are taken one shared write at a time by
\* ProcClear, ProcFillX, ProcFillY, ProcPublish and ProcFlip.
ProcSample(stepwise) ==
  /\ ppc = "read"
  /\ IF isEmpty
     THEN \* read() fails: the inner loop ends (5 ms sleep when no work was done)
          /\ ppc' = "cmd"
          /\ UNCHANGED <<ringVars, histVars, captureVars, binVars, fillVars,
                         displayVars, work_done>>
     ELSE LET sample == RingFront
              trig == sample.worker_state = 1 /\ state = "IDLE"
              st1 == IF trig THEN "CAPTURING" ELSE state
              rise1 == IF trig THEN sample.timestamp ELSE last_rise_time
              trace1 == IF trig THEN <<>> ELSE current_trace
              time_delta_ms == DurationMs(sample.timestamp - rise1)
              buf1 == TrimBuffer(BinTrace(accumulation_buffer, trace1, rise1),
                                 max_accumulations_)
          IN
          /\ records_' = [records_ EXCEPT ![readIndex_] = NoSample]
          /\ readIndex_' = RingPop
          /\ UNCHANGED writeIndex_
          /\ work_done' = TRUE
          /\ n_consumed' = n_consumed + 1
          /\ last_seq' = sample.seq
          /\ last_ts' = sample.timestamp
          /\ last_phase' = sample.worker_state
          /\ pre_trigger_ts' = IF trig
                               THEN (IF n_consumed = 0 THEN -1 ELSE last_ts)
                               ELSE pre_trigger_ts
          /\ last_rise_time' = rise1
          /\ IF st1 = "CAPTURING"
             THEN IF time_delta_ms >= 0 /\ time_delta_ms < period_ms_
                  THEN /\ state' = "CAPTURING"
                       /\ current_trace' = Append(trace1, sample)
                       /\ ppc' = "read"
                       /\ UNCHANGED <<binVars, fillVars, displayVars>>
                  ELSE \* end of the window: steps a) and b)
                       /\ state' = "IDLE"
                       /\ current_trace' = trace1
                       /\ max_acc' = max_accumulations_
                       /\ accumulation_buffer' = buf1
                       /\ pushed' = BinTrace(pushed, trace1, rise1)
                       /\ finalizations' = finalizations + 1
                       /\ popped_empty' =
                            (\/ popped_empty
                             \/ \E j \in Sensors, b \in Bins :
                                  PopsFromEmpty(BinTrace(accumulation_buffer, trace1, rise1)[j][b],
                                                max_accumulations_))
                       /\ IF stepwise
                          THEN /\ ppc' = "clear"
                               /\ fill_i' = 0
                               /\ UNCHANGED <<write_buffer_ptr, fill_bin, displayVars>>
                          ELSE \* steps c), d), e)
                               /\ display_data' =
                                    [display_data EXCEPT ![write_buffer_ptr] =
                                       [i \in Sensors |-> FillDisplay(@[i], buf1[i])]]
                               /\ gui_display_pointers_' =
                                    [i \in Sensors |-> PublishTarget]
                               /\ write_buffer_ptr' = Other(write_buffer_ptr)
                               /\ ppc' = "read"
                               /\ UNCHANGED <<fill_i, fill_bin>>
             ELSE /\ state' = st1
                  /\ current_trace' = trace1
                  /\ ppc' = "read"
                  /\ UNCHANGED <<binVars, fillVars, displayVars>>
  /\ UNCHANGED <<clockVars, samplerVars, renderVars, cmdVars>>
  /\ UNCHANGED sideVars

\* the inner loop with a finalization as one step
ProcRead == ProcSample(FALSE)

\* the inner loop with the shared writes of a finalization as separate steps
ProcReadStepwise == ProcSample(TRUE)

(***************************************************************************)
(* Processing thread, steps c) d) e) one shared write at a time.           *)
(***************************************************************************)
\* the populated bins of sensor i from bin `from` on
PopulatedFrom(i, from) == {b \in Bins : b >= from /\ accumulation_buffer[i][b] # <<>>}

FirstOf(S) == CHOOSE b \in S : \A c \in S : b <= c

\* step c) loop control: on to the next populated bin, the next sensor, or step d)
FillAdvance(from) ==
  IF PopulatedFrom(fill_i, from) # {}
  THEN /\ fill_bin' = FirstOf(PopulatedFrom(fill_i, from))
       /\ ppc' = "fillx"
       /\ UNCHANGED fill_i
  ELSE IF fill_i + 1 < num_interesting
       THEN /\ fill_i' = fill_i + 1
            /\ ppc' = "clear"
            /\ UNCHANGED fill_bin
       ELSE /\ fill_i' = 0
            /\ ppc' = "publish"
            /\ UNCHANGED fill_bin

\* target_display.clear(); target_display.window_after_ms = period_ms_
ProcClear ==
  /\ ppc = "clear"
  /\ display_data' =
       [display_data EXCEPT ![write_buffer_ptr][fill_i] = ResetDisplay(@)]
  /\ FillAdvance(0)
  /\ UNCHANGED write_buffer_ptr
  /\ UNCHANGED <<clockVars, samplerVars, ringVars, histVars, captureVars, binVars,
                 gui_display_pointers_, renderVars, cmdVars, work_done>>
  /\ UNCHANGED sideVars

\* x_data.push_back(bin_idx)
ProcFillX ==
  /\ ppc = "fillx"
  /\ display_data' =
       [display_data EXCEPT ![write_buffer_ptr][fill_i] = PushX(@, fill_bin)]
  /\ ppc' = "filly"
  /\ UNCHANGED <<clockVars, samplerVars, ringVars, histVars, captureVars, binVars,
                 fillVars, gui_display_pointers_, renderVars, cmdVars, work_done>>
  /\ UNCHANGED sideVars

\* y_data_mean / y_data_min / y_data_max push_back, accumulation_count
ProcFillY ==
  /\ ppc = "filly"
  /\ display_data' =
       [display_data EXCEPT ![write_buffer_ptr][fill_i] =
          BinStats(@, accumulation_buffer[fill_i][fill_bin])]
  /\ FillAdvance(fill_bin + 1)
  /\ UNCHANGED write_buffer_ptr
  /\ UNCHANGED <<clockVars, samplerVars, ringVars, histVars, captureVars, binVars,
                 gui_display_pointers_, renderVars, cmdVars, work_done>>
  /\ UNCHANGED sideVars

\* step d) gui_display_pointers_[i].store(write buffer, release)
ProcPublish ==
  /\ ppc = "publish"
  /\ gui_display_pointers_' = [gui_display_pointers_ EXCEPT ![fill_i] = PublishTarget]
  /\ IF fill_i + 1 < num_interesting
     THEN fill_i' = fill_i + 1 /\ ppc' = "publish"
     ELSE fill_i' = 0 /\ ppc' = "flip"
  /\ UNCHANGED <<write_buffer_ptr, fill_bin>>
  /\ UNCHANGED <<clockVars, samplerVars, ringVars, histVars, captureVars, binVars,
                 display_data, renderVars, cmdVars, work_done>>
  /\ UNCHANGED sideVars

\* step e) flip the write buffer target
ProcFlip ==
  /\ ppc = "flip"
  /\ write_buffer_ptr' = Other(write_buffer_ptr)
  /\ ppc' = "read"
  /\ UNCHANGED <<fill_i, fill_bin>>
  /\ UNCHANGED <<clockVars, samplerVars, ringVars, histVars, captureVars, binVars,
                 displayVars, renderVars, cmdVars, work_done>>
  /\ UNCHANGED sideVars

(***************************************************************************)
(* Render loop (UI thread): render_gui, one call per frame.                *)
(***************************************************************************)
\* CommandQueue::push
PushCommand(cmd) ==
  /\ n_commands < MaxCommands
  /\ n_commands' = n_commands + 1
  /\ command_queue_' = Append(command_queue_, cmd)
  /\ UNCHANGED <<max_accumulations_, last_cmd>>

\* the tracked sensors the table loop has still to draw, from sensor `from` on
TrackedFrom(from) == {i \in from .. (NumMeasurements - 1) : Tracked(i)}

\* one frame in which the "Test Core" slider moved: a ChangeCoreCmd is pushed;
\* the table loop of the frame is part of the step
FrameChangeCore ==
  /\ rpc = "controls"
  /\ \E k \in StressCores : PushCommand(ChangeCoreCmd(k))
  /\ UNCHANGED <<clockVars, samplerVars, ringVars, histVars, captureVars, binVars,
                 fillVars, displayVars, renderVars, ppc, work_done>>
  /\ UNCHANGED sideVars

\* one frame in which the UI submits a ChangeAccumulationsCmd
FrameChangeAccumulations ==
  /\ rpc = "controls"
  /\ \E n \in NewCounts : PushCommand(ChangeAccumulationsCmd(n))
  /\ UNCHANGED <<clockVars, samplerVars, ringVars, histVars, captureVars, binVars,
                 fillVars, displayVars, renderVars, ppc, work_done>>
  /\ UNCHANGED sideVars

\* the values an int new_count carries: negative, zero, the depths of the slider
CarriedCounts == -1 .. MaxAccumulations

\* a ChangeAccumulationsCmd with any new_count is submitted
SubmitAnyCount ==
  /\ rpc = "controls"
  /\ \E n \in CarriedCounts : PushCommand(ChangeAccumulationsCmd(n))
  /\ UNCHANGED <<clockVars, samplerVars, ringVars, histVars, captureVars, binVars,
                 fillVars, displayVars, renderVars, ppc, work_done>>
  /\ UNCHANGED sideVars

\* CommandQueue::push, in a run of the command channel
PushBurst(cmd) ==
  /\ n_commands < MaxChannelCommands
  /\ n_commands' = n_commands + 1
  /\ command_queue_' = Append(command_queue_, cmd)
  /\ UNCHANGED <<max_accumulations_, last_cmd>>

\* a frame of a run of the command channel in which the slider moved
ChannelChangeCore ==
  /\ rpc = "controls"
  /\ \E k \in StressCores : PushBurst(ChangeCoreCmd(k))
  /\ UNCHANGED <<clockVars, samplerVars, ringVars, histVars, captureVars, binVars,
                 fillVars, displayVars, renderVars, ppc, work_done>>
  /\ UNCHANGED sideVars

\* a frame of a run of the command channel in which the UI submits a
\* ChangeAccumulationsCmd
ChannelChangeAccumulations ==
  /\ rpc = "controls"
  /\ \E n \in NewCounts : PushBurst(ChangeAccumulationsCmd(n))
  /\ UNCHANGED <<clockVars, samplerVars, ringVars, histVars, captureVars, binVars,
                 fillVars, displayVars, renderVars, ppc, work_done>>
  /\ UNCHANGED sideVars

\* status line and controls of a frame in which the slider is left alone
RenderControls ==
  /\ rpc = "controls"
  /\ rpc' = "table"
  /\ r_i' = 0
  /\ UNCHANGED plot
  /\ UNCHANGED <<clockVars, samplerVars, ringVars, histVars, captureVars, binVars,
                 fillVars, displayVars, cmdVars, ppc, work_done>>
  /\ UNCHANGED sideVars

\* table loop: acquire-load of the next tracked sensor's pointer, or end of frame
RenderTableLoad ==
  /\ rpc = "table"
  /\ IF TrackedFrom(r_i) = {}
     THEN rpc' = "controls" /\ r_i' = 0 /\ UNCHANGED plot
     ELSE /\ r_i' = FirstOf(TrackedFrom(r_i))
          /\ plot' = gui_display_pointers_[StorageIdx(r_i')]
          /\ rpc' = "loaded"
  /\ UNCHANGED <<clockVars, samplerVars, ringVars, histVars, captureVars, binVars,
                 fillVars, displayVars, cmdVars, ppc, work_done>>
  /\ UNCHANGED sideVars

\* if (plot && !plot->x_data.empty())
RenderCheck ==
  /\ rpc = "loaded"
  /\ IF display_data[plot][StorageIdx(r_i)].x_data # <<>>
     THEN rpc' = "plotting" /\ UNCHANGED r_i
     ELSE rpc' = "table" /\ r_i' = r_i + 1
  /\ UNCHANGED plot
  /\ UNCHANGED <<clockVars, samplerVars, ringVars, histVars, captureVars, binVars,
                 fillVars, displayVars, cmdVars, ppc, work_done>>
  /\ UNCHANGED sideVars

\* the three PlotLine calls read x_data, y_data_mean, y_data_max, y_data_min
RenderPlot ==
  /\ rpc = "plotting"
  /\ rpc' = "table"
  /\ r_i' = r_i + 1
  /\ UNCHANGED plot
  /\ UNCHANGED <<clockVars, samplerVars, ringVars, histVars, captureVars, binVars,
                 fillVars, displayVars, cmdVars, ppc, work_done>>
  /\ UNCHANGED sideVars

(***************************************************************************)
(* RealtimeGuard: a thread constructs the guard, may move it, and          *)
(* destroys it.                                                            *)
(***************************************************************************)
\* pthread_setschedparam: the new schedule of the thread, unchanged on EINVAL
pthread_setschedparam(sched, policy, priority) ==
  IF ValidSched(policy, priority)
  THEN [policy |-> policy, priority |-> priority]
  ELSE sched

\* pthread_setaffinity_np: the new mask of the thread, unchanged on EINVAL
pthread_setaffinity_np(affinity, cpuset) ==
  IF cpuset # {} THEN cpuset ELSE affinity

\* a thread starts with the schedule and affinity its creator gave it
ThreadCreate ==
  /\ tpc = "unborn"
  /\ tpc' = "running"
  /\ \E policy \in Policies, priority \in 0 .. MaxPriority :
       /\ ValidSched(policy, priority)
       /\ thread_sched' = [policy |-> policy, priority |-> priority]
  /\ \E cpuset \in (SUBSET Cpus) \ {{}} : thread_affinity' = cpuset
  /\ UNCHANGED <<memory_locked, guards, before, ctor_failed, dtor_active, dtor_calls>>
  /\ UNCHANGED besideGuard

\* RealtimeGuard(core_id, priority, lock_memory): every call may fail; a failed
\* pthread_getschedparam leaves old_param_ as it was, uninitialized
RealtimeGuardCtor ==
  /\ tpc = "running"
  /\ \A g \in GuardIds : ~guards[g].alive
  /\ \E core_id \in -1 .. (NumCpus - 1), priority \in 1 .. MaxPriority, lock_memory \in BOOLEAN,
        getsched_ok \in BOOLEAN, getaffinity_ok \in BOOLEAN, setaffinity_ok \in BOOLEAN,
        setsched_ok \in BOOLEAN, mlockall_ok \in BOOLEAN, garbage \in 0 .. MaxPriority :
       \* outcomes of calls that are not made are not enumerated
       /\ core_id < 0 => (getaffinity_ok /\ setaffinity_ok)
       /\ ~lock_memory => mlockall_ok
       /\ getsched_ok => garbage = 0
       /\ guards' = [guards EXCEPT !["thread_rt"] =
            [alive |-> TRUE,
             active_ |-> TRUE,
             locked_memory_ |-> lock_memory /\ mlockall_ok,
             core_id_ |-> core_id,
             new_priority_ |-> priority,
             old_policy_ |-> IF getsched_ok THEN thread_sched.policy ELSE "SCHED_OTHER",
             old_param_ |-> IF getsched_ok THEN thread_sched.priority ELSE garbage,
             old_cpuset_ |-> IF core_id >= 0 /\ getaffinity_ok THEN thread_affinity ELSE {},
             saved_affinity_ |-> core_id >= 0 /\ getaffinity_ok]]
       /\ thread_affinity' = IF core_id >= 0 /\ setaffinity_ok
                             THEN pthread_setaffinity_np(thread_affinity, {core_id})
                             ELSE thread_affinity
       /\ thread_sched' = IF setsched_ok
                          THEN pthread_setschedparam(thread_sched, "SCHED_FIFO", priority)
                          ELSE thread_sched
       /\ memory_locked' = (memory_locked \/ (lock_memory /\ mlockall_ok))
       /\ ctor_failed' = ~(getsched_ok /\ getaffinity_ok /\ setaffinity_ok /\ setsched_ok
                           /\ mlockall_ok)
  /\ before' = [sched |-> thread_sched, affinity |-> thread_affinity]
  /\ tpc' = "guarded"
  /\ UNCHANGED <<dtor_active, dtor_calls>>
  /\ UNCHANGED besideGuard

\* the restore sequence of the destructor and of move assignment, on guard g
RestoredSched(g) ==
  IF g.active_ THEN pthread_setschedparam(thread_sched, g.old_policy_, g.old_param_)
  ELSE thread_sched

RestoredAffinity(g) ==
  IF g.active_ /\ g.saved_affinity_
  THEN pthread_setaffinity_np(thread_affinity, g.old_cpuset_)
  ELSE thread_affinity

RestoredLock(g) == IF g.active_ /\ g.locked_memory_ THEN FALSE ELSE memory_locked

\* the number of restore calls the sequence makes
RestoreCalls(g) ==
  IF g.active_
  THEN 1 + (IF g.saved_affinity_ THEN 1 ELSE 0) + (IF g.locked_memory_ THEN 1 ELSE 0)
  ELSE 0

\* the fields a move leaves in the source object
MovedFrom(g) ==
  [g EXCEPT !.active_ = FALSE, !.locked_memory_ = FALSE, !.saved_affinity_ = FALSE]

\* RealtimeGuard(RealtimeGuard &&other): moved_to is constructed from thread_rt
RealtimeGuardMove ==
  /\ tpc = "guarded"
  /\ guards["thread_rt"].alive
  /\ ~guards["moved_to"].alive
  /\ guards' = [guards EXCEPT !["moved_to"] = guards["thread_rt"],
                              !["thread_rt"] = MovedFrom(guards["thread_rt"])]
  /\ UNCHANGED <<tpc, thread_sched, thread_affinity, memory_locked, before, ctor_failed,
                 dtor_active, dtor_calls>>
  /\ UNCHANGED besideGuard

\* operator=(RealtimeGuard &&other): thread_rt is assigned from moved_to
RealtimeGuardMoveAssign ==
  /\ tpc = "guarded"
  /\ guards["thread_rt"].alive
  /\ guards["moved_to"].alive
  /\ thread_sched' = RestoredSched(guards["thread_rt"])
  /\ thread_affinity' = RestoredAffinity(guards["thread_rt"])
  /\ memory_locked' = RestoredLock(guards["thread_rt"])
  /\ guards' = [guards EXCEPT !["thread_rt"] = guards["moved_to"],
                              !["moved_to"] = MovedFrom(guards["moved_to"])]
  /\ UNCHANGED <<tpc, before, ctor_failed, dtor_active, dtor_calls>>
  /\ UNCHANGED besideGuard

\* ~RealtimeGuard(): the objects leave scope in reverse order of construction
RealtimeGuardDtor ==
  /\ tpc = "guarded"
  /\ \E id \in GuardIds :
       /\ guards[id].alive
       /\ id = "thread_rt" => ~guards["moved_to"].alive
       /\ dtor_active' = guards[id].active_
       /\ dtor_calls' = RestoreCalls(guards[id])
       /\ thread_sched' = RestoredSched(guards[id])
       /\ thread_affinity' = RestoredAffinity(guards[id])
       /\ memory_locked' = RestoredLock(guards[id])
       /\ guards' = [guards EXCEPT ![id] = NoGuard]
       /\ tpc' = IF id = "thread_rt" THEN "done" ELSE "guarded"
  /\ UNCHANGED <<before, ctor_failed>>
  /\ UNCHANGED besideGuard

(***************************************************************************)
(* StressTester and the correlation run of AnalysisManager.                *)
(***************************************************************************)
\* StressTester::start(): the live flags are initialized from the persistent state
StressStart ==
  /\ apc = "idle"
  /\ ~is_running_
  /\ is_running_' = TRUE
  /\ thread_is_actually_busy_flags_' = thread_busy_states_
  /\ UNCHANGED <<thread_busy_states_, analysisVars>>
  /\ UNCHANGED besideAnalysis

\* StressTester::stop(): the live flags are cleared
StressStop ==
  /\ apc = "idle"
  /\ is_running_
  /\ is_running_' = FALSE
  /\ thread_is_actually_busy_flags_' = <<>>
  /\ UNCHANGED <<thread_busy_states_, analysisVars>>
  /\ UNCHANGED besideAnalysis

\* StressTester::set_thread_busy_state on the persistent states
PersistentAfter(states, core_id, is_busy) ==
  IF core_id \in StressCores THEN [states EXCEPT ![core_id] = is_busy] ELSE states

\* StressTester::set_thread_busy_state on the live flags
LiveAfter(flags, core_id, is_busy) ==
  IF core_id \in StressCores /\ is_running_ /\ core_id \in DOMAIN flags
  THEN [flags EXCEPT ![core_id] = is_busy]
  ELSE flags

\* set_thread_busy_state(i, is_busy) for every core i
AllPersistent(is_busy) == [c \in StressCores |-> is_busy]

AllLive(is_busy) ==
  IF is_running_ THEN [c \in DOMAIN thread_is_actually_busy_flags_ |-> is_busy]
  ELSE thread_is_actually_busy_flags_

\* the user clicks the checkbox of one stress thread
CheckboxSetBusy ==
  /\ apc = "idle"
  /\ is_running_
  /\ \E i \in StressCores :
       /\ thread_busy_states_' = PersistentAfter(thread_busy_states_, i, ~thread_busy_states_[i])
       /\ thread_is_actually_busy_flags_' =
            LiveAfter(thread_is_actually_busy_flags_, i, ~thread_busy_states_[i])
  /\ UNCHANGED <<is_running_, analysisVars>>
  /\ UNCHANGED besideAnalysis

\* process_data_packet: the first packet sizes analysis_results_
process_data_packet ==
  /\ apc = "idle"
  /\ DOMAIN analysis_results_ # Cells
  /\ analysis_results_' = [i \in Cells |-> <<>>]
  /\ UNCHANGED <<apc, stressed_core_id, baseline_stddevs, n_updates, busy_before,
                 final_strength, stressVars>>
  /\ UNCHANGED besideAnalysis

\* values of get_stddev(): finite ones, NaN and +infinity
NaN == -1
Infinity == MaxStddev + 1
Stddevs == NaN .. Infinity
IsFinite(x) == x \in 0 .. MaxStddev

RECURSIVE ISqrtFrom(_, _)
ISqrtFrom(n, r) == IF (r + 1) * (r + 1) > n THEN r ELSE ISqrtFrom(n, r + 1)
\* integer square root
ISqrt(n) == ISqrtFrom(n, 0)

\* the strength computed from the two deviations, in units of 1/StrengthScale:
\* sqrtf(max(0, (active - baseline) / (active + baseline + 1e-9)));
\* a NaN denominator fails the test denominator > 0, a NaN quotient loses
\* against 0.0f in std::max
correlation_strength(active, baseline) ==
  IF ~(IsFinite(active) /\ IsFinite(baseline)) THEN 0
  ELSE IF active <= baseline THEN 0
  ELSE ISqrt((StrengthScale * StrengthScale * (active - baseline)) \div (active + baseline))

\* quality 1.0f
QualityOne == StrengthScale
\* the top K kept
TopK == 4

\* positions of the entries for core_id
Found(top, core_id) == {k \in 1 .. Len(top) : top[k].core_id = core_id}

\* find_if, then update or push_back
UpdatedOrInserted(top, core_id, new_strength) ==
  IF Found(top, core_id) # {}
  THEN [top EXCEPT ![FirstOf(Found(top, core_id))].correlation_strength = new_strength]
  ELSE Append(top, [core_id |-> core_id, correlation_strength |-> new_strength,
                    correlation_quality |-> QualityOne])

Descending(top) ==
  \A i, j \in 1 .. Len(top) : i < j => top[i].correlation_strength >= top[j].correlation_strength

\* q with entry e put in at position k
PutAt(q, k, e) == SubSeq(q, 1, k - 1) \o <<e>> \o SubSeq(q, k, Len(q))

\* the descending arrangements of the first n entries of top
RECURSIVE SortedPrefix(_, _)
SortedPrefix(top, n) ==
  IF n = 0 THEN {<<>>}
  ELSE {r \in UNION {{PutAt(q, k, top[n]) : k \in 1 .. (Len(q) + 1)}
                      : q \in SortedPrefix(top, n - 1)} : Descending(r)}

\* std::sort is not stable: every descending arrangement is a possible result
Sorted(top) == SortedPrefix(top, Len(top))

\* resize(4) when longer
Truncated(top) == IF Len(top) > TopK THEN SubSeq(top, 1, TopK) ELSE top

\* the list left as pushed, neither sorted nor cut
update_or_insert_unsorted(top, core_id, new_strength) ==
  {UpdatedOrInserted(top, core_id, new_strength)}

\* update_or_insert_correlation: the possible lists after the call
update_or_insert_correlation(top, core_id, new_strength) ==
  {Truncated(q) : q \in Sorted(UpdatedOrInserted(top, core_id, new_strength))}

\* run_correlation_analysis up to the first baseline sleep: clear the
\* previous results, switch every stress thread off
AnalysisBegin ==
  /\ apc = "idle"
  /\ is_running_
  /\ busy_before' = [persistent |-> thread_busy_states_,
                     live |-> thread_is_actually_busy_flags_]
  /\ analysis_results_' = [i \in DOMAIN analysis_results_ |-> <<>>]
  /\ final_strength' = [i \in DOMAIN analysis_results_ |-> <<>>]
  /\ thread_busy_states_' = AllPersistent(FALSE)
  /\ thread_is_actually_busy_flags_' = AllLive(FALSE)
  /\ stressed_core_id' = 0
  /\ n_updates' = 0
  /\ apc' = "baseline"
  /\ UNCHANGED <<is_running_, baseline_stddevs>>
  /\ UNCHANGED besideAnalysis

\* after the baseline sleep: snapshot the baseline deviations, stress the core
AnalysisBaseline ==
  /\ apc = "baseline"
  /\ stressed_core_id < NumCores
  /\ \E stddevs \in [DOMAIN analysis_results_ -> Stddevs] : baseline_stddevs' = stddevs
  /\ thread_busy_states_' = PersistentAfter(thread_busy_states_, stressed_core_id, TRUE)
  /\ thread_is_actually_busy_flags_' =
       LiveAfter(thread_is_actually_busy_flags_, stressed_core_id, TRUE)
  /\ n_updates' = 0
  /\ apc' = "active"
  /\ UNCHANGED <<is_running_, analysis_results_, stressed_core_id, busy_before,
                 final_strength>>
  /\ UNCHANGED besideAnalysis

\* one iteration of the real-time update loop, on the cell followed
AnalysisUpdate ==
  /\ apc = "active"
  /\ n_updates < MaxUpdates
  /\ n_updates' = n_updates + 1
  /\ IF DOMAIN analysis_results_ = {}
     THEN UNCHANGED <<analysis_results_, final_strength>>
     ELSE \E i \in DOMAIN analysis_results_ :
            \E new_strength \in {correlation_strength(active, baseline_stddevs[i]) :
                                   active \in Stddevs} :
              /\ \E r \in update_or_insert_correlation(analysis_results_[i],
                                                        stressed_core_id, new_strength) :
                   analysis_results_' = [analysis_results_ EXCEPT ![i] = r]
              /\ final_strength' =
                   [final_strength EXCEPT ![i] = (stressed_core_id :> new_strength) @@ @]
  /\ UNCHANGED <<apc, stressed_core_id, baseline_stddevs, busy_before, stressVars>>
  /\ UNCHANGED besideAnalysis

\* the active duration is over: the core is switched off, the next one is due
AnalysisEndCore ==
  /\ apc = "active"
  /\ n_updates >= 1
  /\ thread_busy_states_' = PersistentAfter(thread_busy_states_, stressed_core_id, FALSE)
  /\ thread_is_actually_busy_flags_' =
       LiveAfter(thread_is_actually_busy_flags_, stressed_core_id, FALSE)
  /\ stressed_core_id' = stressed_core_id + 1
  /\ baseline_stddevs' = <<>>
  /\ n_updates' = 0
  /\ apc' = "baseline"
  /\ UNCHANGED <<is_running_, analysis_results_, busy_before, final_strength>>
  /\ UNCHANGED besideAnalysis

\* Step 4, cleanup: every core is set busy
AnalysisCleanup ==
  /\ apc = "baseline"
  /\ stressed_core_id = NumCores
  /\ thread_busy_states_' = AllPersistent(TRUE)
  /\ thread_is_actually_busy_flags_' = AllLive(TRUE)
  /\ apc' = "finished"
  /\ UNCHANGED <<is_running_, analysis_results_, stressed_core_id, baseline_stddevs,
                 n_updates, busy_before, final_strength>>
  /\ UNCHANGED besideAnalysis

(***************************************************************************)
(* GuiRunner::run: launch of the three background threads, the render      *)
(* loop, shutdown and joins.                                               *)
(***************************************************************************)
\* g_run_measurement.store(true), then the three threads are launched
GuiLaunch ==
  /\ ui = "init"
  /\ g_run_measurement' = TRUE
  /\ measurement' = "spin"
  /\ processing' = "loop"
  /\ worker' = "loop"
  /\ ui' = "frames"
  /\ UNCHANGED <<terminate_threads_, manual_mode_, manual_core_to_test_, cycle_i>>
  /\ UNCHANGED <<pipelineVars, besideThreads>>

\* one frame of the render loop: the controls may change the mode and the core
GuiFrame ==
  /\ ui \in {"frames", "rendered"}
  /\ ui' = "rendered"
  /\ \E is_manual \in BOOLEAN, core_to_test \in TestCores :
       /\ manual_mode_' = is_manual
       /\ manual_core_to_test_' = core_to_test
  /\ UNCHANGED <<terminate_threads_, g_run_measurement, measurement, processing, worker,
                 cycle_i>>
  /\ UNCHANGED <<pipelineVars, besideThreads>>

\* the window was closed: terminate_threads_.store(true); g_run_measurement.store(false)
GuiShutdown ==
  /\ ui = "rendered"
  /\ terminate_threads_' = TRUE
  /\ g_run_measurement' = FALSE
  /\ ui' = "join_measurement"
  /\ UNCHANGED <<measurement, processing, worker, manual_mode_, manual_core_to_test_,
                 cycle_i>>
  /\ UNCHANGED <<pipelineVars, besideThreads>>

\* measurement.join(); processing.join(); worker.join(); return 0
GuiJoin ==
  /\ \/ ui = "join_measurement" /\ measurement = "exited" /\ ui' = "join_processing"
     \/ ui = "join_processing" /\ processing = "exited" /\ ui' = "join_worker"
     \/ ui = "join_worker" /\ worker = "exited" /\ ui' = "returned"
  /\ UNCHANGED <<terminate_threads_, g_run_measurement, measurement, processing, worker,
                 manual_mode_, manual_core_to_test_, cycle_i>>
  /\ UNCHANGED <<pipelineVars, besideThreads>>

\* the sampler leaves its start spin once the flag is seen true
MeasurementStart ==
  /\ measurement = "spin"
  /\ g_run_measurement
  /\ measurement' = "loop"
  /\ UNCHANGED <<ui, terminate_threads_, g_run_measurement, processing, worker,
                 manual_mode_, manual_core_to_test_, cycle_i>>
  /\ UNCHANGED <<pipelineVars, besideThreads>>

\* while (run): one sample is built and enqueued (the ring-full spin ends when
\* the run flag is cleared), then the sampler waits for the next deadline
MeasurementLoop ==
  /\ \/ measurement = "loop" /\ g_run_measurement /\ measurement' = "wait"
     \/ measurement = "loop" /\ ~g_run_measurement /\ measurement' = "exited"
     \/ measurement = "wait" /\ measurement' = "loop"
  /\ UNCHANGED <<ui, terminate_threads_, g_run_measurement, processing, worker,
                 manual_mode_, manual_core_to_test_, cycle_i>>
  /\ UNCHANGED <<pipelineVars, besideThreads>>

\* while (!terminate_threads_.load()): one outer iteration, then the 5 ms sleep
ProcessingLoop ==
  /\ \/ processing = "loop" /\ ~terminate_threads_ /\ processing' = "sleep"
     \/ processing = "loop" /\ terminate_threads_ /\ processing' = "exited"
     \/ processing = "sleep" /\ processing' = "loop"
  /\ UNCHANGED <<ui, terminate_threads_, g_run_measurement, measurement, worker,
                 manual_mode_, manual_core_to_test_, cycle_i>>
  /\ UNCHANGED <<pipelineVars, besideThreads>>

\* run_worker_thread: while (!terminate_threads_.load()), a burst in manual
\* mode on a core other than the sampler's, then the 50 ms sleep
WorkerLoop ==
  /\ \/ /\ worker = "loop"
        /\ terminate_threads_
        /\ worker' = "exited"
     \/ /\ worker = "loop"
        /\ ~terminate_threads_
        /\ worker' = IF manual_mode_ /\ manual_core_to_test_ # measurement_core_
                     THEN "cycle" ELSE "sleep"
     \/ /\ worker = "sleep"
        /\ worker' = "loop"
  /\ cycle_i' = 0
  /\ UNCHANGED <<ui, terminate_threads_, g_run_measurement, measurement, processing,
                 manual_mode_, manual_core_to_test_>>
  /\ UNCHANGED <<pipelineVars, besideThreads>>

\* the burst: for (i < num_cycles) { phase := 1; busy; phase := 0; sleep }
WorkerCycle ==
  /\ \/ /\ worker = "cycle"
        /\ cycle_i < MaxCycles
        /\ g_worker_state' = 1
        /\ worker' = "busy"
        /\ UNCHANGED cycle_i
     \/ /\ worker = "busy"
        /\ g_worker_state' = 0
        /\ cycle_i' = cycle_i + 1
        /\ worker' = "cycle"
     \/ /\ worker = "cycle"
        /\ cycle_i = MaxCycles
        /\ worker' = "sleep"
        /\ UNCHANGED <<g_worker_state, cycle_i>>
  /\ UNCHANGED <<ui, terminate_threads_, g_run_measurement, measurement, processing,
                 manual_mode_, manual_core_to_test_>>
  /\ UNCHANGED <<phaseRest, besideThreads>>

(***************************************************************************)
(* The pm_table blob readers: PmTableReader and its sampler, the moonitor  *)
(* pipeline, and the standalone logger.                                    *)
(***************************************************************************)
\* sizes the driver may report in pm_table_size, in bytes
ReportedSizes == {0, 4, 8, 4 * PM_TABLE_MAX_FLOATS, 4 * PM_TABLE_MAX_FLOATS + 4,
                  SizeLimit, SizeLimit + 4}

\* bytes the sysfs file yields to one read of size bytes: none, half, all
Yields(size) == {0, size \div 2, size}

\* PmTableReader::PmTableReader: read_sysfs_uint64 throws, or the object is
\* constructed whatever the size and whether or not the stream opened
PmTableReaderCtor ==
  /\ reader_state = "none"
  /\ logger_state = "init"
  /\ bytes_to_read = -1
  /\ \E sysfs_ok \in BOOLEAN, size \in ReportedSizes, opened \in BOOLEAN :
       IF sysfs_ok
       THEN /\ reader_state' = "constructed"
            /\ pm_table_size' = size
            /\ pm_table_stream' = opened
       ELSE /\ reader_state' = "threw"
            /\ UNCHANGED <<pm_table_size, pm_table_stream>>
  /\ UNCHANGED <<last_read, period, next_wakeup, delivered, bytes_to_read, data_buffer,
                 logger_state, logger_stream>>
  /\ UNCHANGED <<qs_state, queued>>
  /\ UNCHANGED besideReader

\* bytes an ifstream::read of size bytes transfers: none once the stream has failed
Transferred(good, size, yield) == IF good THEN (IF yield <= size THEN yield ELSE size) ELSE 0

\* the stream after read and seekg(0): a short read sets failbit, which
\* seekg does not clear
GoodAfter(good, size, yield) == good /\ Transferred(good, size, yield) = size

\* one period of measurement_thread_func: PmTableReader::read into the slot
\* (it returns void), the sample is processed, the deadline advances
SamplerPeriod ==
  /\ reader_state = "constructed"
  /\ period < MaxPeriods
  /\ \E yield \in Yields(pm_table_size) :
       /\ last_read' = [bytes |-> Transferred(pm_table_stream, pm_table_size, yield),
                        reported |-> "none"]
       /\ pm_table_stream' = GoodAfter(pm_table_stream, pm_table_size, yield)
       /\ delivered' = Append(delivered,
            [period |-> period + 1,
             data_period |-> IF last_read'.bytes > 0 THEN period + 1 ELSE 0,
             bytes |-> last_read'.bytes,
             expected |-> pm_table_size])
  /\ period' = period + 1
  /\ next_wakeup' = next_wakeup + 1
  /\ UNCHANGED <<reader_state, pm_table_size, bytes_to_read, data_buffer, logger_state,
                 logger_stream>>
  /\ UNCHANGED <<qs_state, queued>>
  /\ UNCHANGED besideReader

\* moonitor stage 1, first token: the table size is what the first read yields
MoonitorDetect ==
  /\ reader_state = "none"
  /\ logger_state = "init"
  /\ bytes_to_read = -1
  /\ \E bytes_read \in {4, 8} : bytes_to_read' = (bytes_read \div 4) * 4
  /\ UNCHANGED <<reader_state, pm_table_size, pm_table_stream, last_read, period,
                 next_wakeup, delivered, data_buffer, logger_state, logger_stream>>
  /\ UNCHANGED <<qs_state, queued>>
  /\ UNCHANGED besideReader

\* moonitor, one token through both stages: clear, seekg, sleep, read; the
\* buffer is placed in the line if gcount() > 0; stage 2 processes the line
MoonitorToken ==
  /\ bytes_to_read > 0
  /\ period < MaxPeriods
  /\ \E yield \in Yields(bytes_to_read) :
       /\ last_read' = [bytes |-> yield, reported |-> "none"]
       /\ data_buffer' = IF yield > 0
                         THEN [data_buffer EXCEPT ![period % NumLines] =
                                 [data_period |-> period + 1, bytes |-> yield]]
                         ELSE data_buffer
  /\ delivered' = Append(delivered,
       [period |-> period + 1,
        data_period |-> data_buffer'[period % NumLines].data_period,
        bytes |-> data_buffer'[period % NumLines].bytes,
        expected |-> bytes_to_read])
  /\ period' = period + 1
  /\ next_wakeup' = next_wakeup + 1
  /\ UNCHANGED <<reader_state, pm_table_size, pm_table_stream, bytes_to_read, logger_state,
                 logger_stream>>
  /\ UNCHANGED <<qs_state, queued>>
  /\ UNCHANGED besideReader

\* the standalone logger: the size is checked before anything is read
LoggerStart ==
  /\ reader_state = "none"
  /\ logger_state = "init"
  /\ bytes_to_read = -1
  /\ \E size \in ReportedSizes, opened \in BOOLEAN :
       /\ pm_table_size' = size
       /\ logger_stream' = opened
       /\ logger_state' = IF size = 0 \/ size > SizeLimit \/ ~opened
                          THEN "exit_failure" ELSE "running"
  /\ UNCHANGED <<reader_state, pm_table_stream, last_read, period, next_wakeup,
                 delivered, bytes_to_read, data_buffer>>
  /\ UNCHANGED <<qs_state, queued>>
  /\ UNCHANGED besideReader

\* the standalone logger, one period: a failed read writes nothing
LoggerPeriod ==
  /\ logger_state = "running"
  /\ period < MaxPeriods
  /\ \E yield \in Yields(pm_table_size) :
       /\ last_read' = [bytes |-> Transferred(logger_stream, pm_table_size, yield),
                        reported |-> IF GoodAfter(logger_stream, pm_table_size, yield)
                                     THEN "ok" ELSE "failed"]
       /\ logger_stream' = GoodAfter(logger_stream, pm_table_size, yield)
       /\ delivered' = IF logger_stream'
                       THEN Append(delivered,
                              [period |-> period + 1, data_period |-> period + 1,
                               bytes |-> last_read'.bytes, expected |-> pm_table_size])
                       ELSE delivered
  /\ period' = period + 1
  /\ next_wakeup' = next_wakeup + 1
  /\ UNCHANGED <<reader_state, pm_table_size, pm_table_stream, bytes_to_read, data_buffer,
                 logger_state>>
  /\ UNCHANGED <<qs_state, queued>>
  /\ UNCHANGED besideReader

\* the queue sampler without the element-count check
QueueSamplerStartUnchecked ==
  /\ reader_state = "constructed"
  /\ qs_state = "none"
  /\ period = 0
  /\ qs_state' = "sampling"
  /\ UNCHANGED <<reader_state, pm_table_size, pm_table_stream, last_read, period,
                 next_wakeup, delivered, bytes_to_read, data_buffer, logger_state,
                 logger_stream, queued>>
  /\ UNCHANGED besideReader

\* the queue sampler's start: N = size() / 4; it aborts if N exceeds the
\* capacity of a RawSample
QueueSamplerStart ==
  /\ reader_state = "constructed"
  /\ qs_state = "none"
  /\ period = 0
  /\ qs_state' = IF pm_table_size \div 4 > PM_TABLE_MAX_FLOATS THEN "aborted" ELSE "sampling"
  /\ UNCHANGED <<reader_state, pm_table_size, pm_table_stream, last_read, period,
                 next_wakeup, delivered, bytes_to_read, data_buffer, logger_state,
                 logger_stream, queued>>
  /\ UNCHANGED besideReader

\* the queue sampler, one period: the blob is read into a RawSample of N values
QueueSamplerSample ==
  /\ qs_state = "sampling"
  /\ period < MaxPeriods
  /\ \E yield \in Yields(pm_table_size) :
       /\ last_read' = [bytes |-> Transferred(pm_table_stream, pm_table_size, yield),
                        reported |-> "none"]
       /\ pm_table_stream' = GoodAfter(pm_table_stream, pm_table_size, yield)
       /\ queued' = Append(queued, [num_measurements |-> pm_table_size \div 4,
                                    bytes |-> last_read'.bytes])
  /\ period' = period + 1
  /\ next_wakeup' = next_wakeup + 1
  /\ UNCHANGED <<reader_state, pm_table_size, delivered, bytes_to_read, data_buffer,
                 logger_state, logger_stream, qs_state>>
  /\ UNCHANGED besideReader

(***************************************************************************)
(* LockedBuffer: mmap + mlock with a malloc fallback, scoped release.      *)
(***************************************************************************)
\* sizes requested of LockedBuffer(bytes)
RequestSizes == {0, 1, PageSize, PageSize + 1, SizeMax}

\* pages * page_sz in size_t arithmetic: the sum wraps at SizeMax + 1
Rounded(bytes) == (((bytes + PageSize - 1) % (SizeMax + 1)) \div PageSize) * PageSize

\* what the system calls of the constructor may do: mmap and mlock succeed;
\* RLIMIT_MEMLOCK is below the size; mlock fails; mmap fails and malloc
\* succeeds; both fail.  mmap of length 0 fails.
CtorOutcomes(bytes) ==
  IF Rounded(bytes) = 0 THEN {"heap", "none"}
  ELSE {"locked", "rlimit", "mlock_failed", "heap", "none"}

\* a constructor that gives up when mmap fails
ConstructedNoFallback(bytes, outcome, region) ==
  IF bytes = 0 \/ outcome \in {"none", "heap"} THEN EmptyBuffer
  ELSE [ptr_ |-> region, bytes_ |-> Rounded(bytes), locked_ |-> outcome = "locked",
        mmaped_ |-> TRUE]

\* the fields LockedBuffer(bytes) leaves, `region` being the memory acquired
Constructed(bytes, outcome, region) ==
  IF bytes = 0 \/ outcome = "none" THEN EmptyBuffer
  ELSE IF outcome = "heap"
  THEN [ptr_ |-> region, bytes_ |-> bytes, locked_ |-> FALSE, mmaped_ |-> FALSE]
  ELSE [ptr_ |-> region, bytes_ |-> Rounded(bytes), locked_ |-> outcome = "locked",
        mmaped_ |-> TRUE]

\* a region as the system handed it out, with no release call made yet
Acquired(b) ==
  [mapped |-> b.mmaped_, size |-> b.bytes_, locked |-> b.locked_,
   munlock |-> 0, munmap |-> 0, free |-> 0, bad |-> FALSE]

\* alive or not, with the fields of b
Object(alive, b) ==
  [alive |-> alive, ptr_ |-> b.ptr_, bytes_ |-> b.bytes_, locked_ |-> b.locked_,
   mmaped_ |-> b.mmaped_]

\* LockedBuffer::LockedBuffer(std::size_t)
LockedBufferCtor ==
  \E id \in BufIds, bytes \in RequestSizes :
    /\ ~buffers[id].alive
    /\ Len(regions) < MaxRegions
    /\ \E outcome \in CtorOutcomes(bytes) :
         LET b == Constructed(bytes, outcome, Len(regions) + 1)
         IN /\ buffers' = [buffers EXCEPT ![id] = Object(TRUE, b)]
            /\ regions' = IF b.ptr_ = 0 THEN regions ELSE Append(regions, Acquired(b))
            /\ last_ctor' = [id |-> id, bytes |-> bytes,
                             outcome |-> IF bytes = 0 THEN "none" ELSE outcome,
                             result |-> b]
    /\ UNCHANGED besideLocked

\* LockedBuffer::cleanup on the fields of b: the release calls it makes, `bad`
\* marking a call that does not match the region or comes after its release
Cleaned(rs, b) ==
  IF b.ptr_ = 0 THEN rs
  ELSE LET r == rs[b.ptr_]
           gone == r.munmap + r.free > 0
       IN IF b.mmaped_
          THEN [rs EXCEPT ![b.ptr_].munlock = IF b.locked_ THEN @ + 1 ELSE @,
                          ![b.ptr_].munmap = @ + 1,
                          ![b.ptr_].bad = @ \/ gone \/ ~r.mapped \/ b.bytes_ # r.size
                                            \/ (b.locked_ /\ ~r.locked)]
          ELSE [rs EXCEPT ![b.ptr_].free = @ + 1,
                          ![b.ptr_].bad = @ \/ gone \/ r.mapped]

\* a move that leaves the source's fields as they were
MovedFromKept(b) == b

\* the source of a move: emptied, still to be destroyed
MovedFromBuffer(b) == Object(b.alive, EmptyBuffer)

\* LockedBuffer::LockedBuffer(LockedBuffer&&)
LockedBufferMove ==
  \E id \in BufIds, o \in BufIds :
    /\ id # o
    /\ ~buffers[id].alive
    /\ buffers[o].alive
    /\ buffers' = [buffers EXCEPT ![id] = Object(TRUE, buffers[o]),
                                  ![o] = MovedFromBuffer(buffers[o])]
    /\ UNCHANGED <<regions, last_ctor>>
    /\ UNCHANGED besideLocked

\* LockedBuffer::operator=(LockedBuffer&&), self-assignment included
LockedBufferMoveAssign ==
  \E id \in BufIds, o \in BufIds :
    /\ buffers[id].alive
    /\ buffers[o].alive
    /\ IF id = o
       THEN UNCHANGED <<buffers, regions>>
       ELSE /\ regions' = Cleaned(regions, buffers[id])
            /\ buffers' = [buffers EXCEPT ![id] = Object(TRUE, buffers[o]),
                                          ![o] = MovedFromBuffer(buffers[o])]
    /\ UNCHANGED last_ctor
    /\ UNCHANGED besideLocked

\* LockedBuffer::~LockedBuffer
LockedBufferDtor ==
  \E id \in BufIds :
    /\ buffers[id].alive
    /\ regions' = Cleaned(regions, buffers[id])
    /\ buffers' = [buffers EXCEPT ![id] = NoBuffer]
    /\ UNCHANGED last_ctor
    /\ UNCHANGED besideLocked

(***************************************************************************)
(* Calls of calculate_trimmed_mean.                                        *)
(***************************************************************************)
\* every sequence of 1 .. MaxData values
ShortData == UNION {[1 .. n -> 1 .. MaxValue] : n \in 1 .. MaxData}

\* a bin of 150 values in descending order, the upper half ten times larger
LongData == [i \in 1 .. 150 |-> IF i <= 75 THEN 10 * (151 - i) ELSE 151 - i]

\* the data passed: short sequences, one with an outlier, a long bin
TrimData == ShortData \cup {<<1, 2, 3, 4, 100>>, LongData}

\* calculate_trimmed_mean(data, trim_percentage) is called and returns
TrimmedMeanCall ==
  /\ tm_data = <<>>
  /\ \E data \in TrimData, p \in TrimPercents :
       /\ tm_data' = data
       /\ tm_p' = p
       /\ tm_result' = calculate_trimmed_mean(data, p)
  /\ UNCHANGED besideStats

(***************************************************************************)
(* The processing thread's loop under a sampler that never stops: the ring *)
(* by its occupancy, the commands by their number.                         *)
(***************************************************************************)
\* the sampler enqueues a sample
DrainSamplerWrite ==
  /\ dq_samples < QueueSize
  /\ dq_samples' = dq_samples + 1
  /\ UNCHANGED <<dq_commands, dq_pushed, dq_applied, dq_pc, dq_work_done>>
  /\ UNCHANGED besideDrain

\* the UI thread pushes a command
DrainPushCommand ==
  /\ dq_pushed < MaxChannelCommands
  /\ dq_pushed' = dq_pushed + 1
  /\ dq_commands' = Append(dq_commands, dq_pushed + 1)
  /\ UNCHANGED <<dq_samples, dq_applied, dq_pc, dq_work_done>>
  /\ UNCHANGED besideDrain

\* step 1 of the outer loop: at most one command is popped and applied
DrainProcCommand ==
  /\ dq_pc = "cmd"
  /\ dq_pc' = "read"
  /\ dq_work_done' = FALSE
  /\ IF dq_commands = <<>>
     THEN UNCHANGED <<dq_commands, dq_applied>>
     ELSE /\ dq_commands' = Tail(dq_commands)
          /\ dq_applied' = dq_applied + 1
  /\ UNCHANGED <<dq_samples, dq_pushed>>
  /\ UNCHANGED besideDrain

\* step 2, the inner loop: while (spsc_queue_.read(sample)); it ends when the
\* ring is found empty
DrainProcRead ==
  /\ dq_pc = "read"
  /\ IF dq_samples = 0
     THEN /\ dq_pc' = IF dq_work_done THEN "cmd" ELSE "sleep"
          /\ UNCHANGED <<dq_samples, dq_work_done>>
     ELSE /\ dq_samples' = dq_samples - 1
          /\ dq_work_done' = TRUE
          /\ UNCHANGED dq_pc
  /\ UNCHANGED <<dq_commands, dq_pushed, dq_applied>>
  /\ UNCHANGED besideDrain

\* no work was done: sleep_for(5ms), then the next outer iteration
DrainProcSleep ==
  /\ dq_pc = "sleep"
  /\ dq_pc' = "cmd"
  /\ UNCHANGED <<dq_samples, dq_commands, dq_pushed, dq_applied, dq_work_done>>
  /\ UNCHANGED besideDrain

(***************************************************************************)
(* The UI thread's handlers of the Correlation tab, which stay enabled     *)
(* while a correlation run is in progress on the executor.                 *)
(***************************************************************************)
\* the user clicks the checkbox of one stress thread, at any time
UiCheckbox ==
  /\ ui_pc = "idle"
  /\ is_running_
  /\ \E i \in StressCores :
       /\ thread_busy_states_' = PersistentAfter(thread_busy_states_, i, ~thread_busy_states_[i])
       /\ thread_is_actually_busy_flags_' =
            LiveAfter(thread_is_actually_busy_flags_, i, ~thread_busy_states_[i])
  /\ UNCHANGED <<is_running_, analysisVars, raceVars>>
  /\ UNCHANGED besideRace

\* the user clicks Enable All
UiEnableAll ==
  /\ ui_pc = "idle"
  /\ is_running_
  /\ thread_busy_states_' = AllPersistent(TRUE)
  /\ thread_is_actually_busy_flags_' = AllLive(TRUE)
  /\ UNCHANGED <<is_running_, analysisVars, raceVars>>
  /\ UNCHANGED besideRace

\* the user clicks Disable All
UiDisableAll ==
  /\ ui_pc = "idle"
  /\ is_running_
  /\ thread_busy_states_' = AllPersistent(FALSE)
  /\ thread_is_actually_busy_flags_' = AllLive(FALSE)
  /\ UNCHANGED <<is_running_, analysisVars, raceVars>>
  /\ UNCHANGED besideRace

(***************************************************************************)
(* StressTester::stop, start and set_thread_busy_state step by step: the   *)
(* UI thread runs stop and start, the correlation driver calls             *)
(* set_thread_busy_state from a task of the executor. No mutex is taken    *)
(* and is_running_ is a plain bool.                                        *)
(***************************************************************************)
\* the unique_ptrs of the flag vector hold no flag between the resize and
\* the loop of start() that creates them
EntriesNull == ui_pc = "start_resized"

\* the entry thread_is_actually_busy_flags_[core_id] is inside the vector
EntryExists(flags, core_id) == core_id \in DOMAIN flags

\* stop(), lines 68-82: the stop flags are set and every worker is joined
UiStopJoin ==
  /\ ui_pc = "idle"
  /\ is_running_
  /\ ui_pc' = "stop_joined"
  /\ UNCHANGED <<stressVars, drv, bad_access, analysisVars>>
  /\ UNCHANGED besideRace

\* stop(), lines 83-85: the vectors are cleared, the flags destroyed
UiStopClear ==
  /\ ui_pc = "stop_joined"
  /\ thread_is_actually_busy_flags_' = <<>>
  /\ ui_pc' = "stop_cleared"
  /\ UNCHANGED <<is_running_, thread_busy_states_, drv, bad_access, analysisVars>>
  /\ UNCHANGED besideRace

\* stop(), line 86: is_running_ = false
UiStopEnd ==
  /\ ui_pc = "stop_cleared"
  /\ is_running_' = FALSE
  /\ ui_pc' = "idle"
  /\ UNCHANGED <<thread_busy_states_, thread_is_actually_busy_flags_, drv, bad_access,
                 analysisVars>>
  /\ UNCHANGED besideRace

\* start(), lines 46-52: is_running_ = true, the vectors still empty
UiStartBegin ==
  /\ ui_pc = "idle"
  /\ ~is_running_
  /\ is_running_' = TRUE
  /\ ui_pc' = "start_begun"
  /\ UNCHANGED <<thread_busy_states_, thread_is_actually_busy_flags_, drv, bad_access,
                 analysisVars>>
  /\ UNCHANGED besideRace

\* start(), lines 53-55: the vectors are resized, every entry a null pointer
UiStartResize ==
  /\ ui_pc = "start_begun"
  /\ thread_is_actually_busy_flags_' = [c \in StressCores |-> FALSE]
  /\ ui_pc' = "start_resized"
  /\ UNCHANGED <<is_running_, thread_busy_states_, drv, bad_access, analysisVars>>
  /\ UNCHANGED besideRace

\* start(), lines 57-65: every flag is created from the persistent state
UiStartFill ==
  /\ ui_pc = "start_resized"
  /\ thread_is_actually_busy_flags_' = [c \in StressCores |-> thread_busy_states_[c]]
  /\ ui_pc' = "idle"
  /\ UNCHANGED <<is_running_, thread_busy_states_, drv, bad_access, analysisVars>>
  /\ UNCHANGED besideRace

\* Run Analysis: run_correlation_analysis is handed to the executor
RunAnalysisClick ==
  /\ ui_pc = "idle"
  /\ is_running_
  /\ drv.pc = "off"
  /\ drv' = [NoCall EXCEPT !.pc = "ready"]
  /\ UNCHANGED <<stressVars, ui_pc, bad_access, analysisVars>>
  /\ UNCHANGED besideRace

\* set_thread_busy_state, lines 91-96, called by the driver: the persistent
\* state is written, then is_running_ && thread_is_actually_busy_flags_[core_id]
\* is evaluated; operator[] does not check the index
DriverSetTest(core_id, is_busy) ==
  /\ thread_busy_states_' = PersistentAfter(thread_busy_states_, core_id, is_busy)
  /\ IF ~is_running_
     THEN UNCHANGED <<drv, bad_access>>
     ELSE IF ~EntryExists(thread_is_actually_busy_flags_, core_id)
     THEN /\ bad_access' = TRUE
          /\ UNCHANGED drv
     ELSE IF EntriesNull
     THEN UNCHANGED <<drv, bad_access>>
     ELSE /\ drv' = [pc |-> "store", core_id |-> core_id, is_busy |-> is_busy]
          /\ UNCHANGED bad_access

\* one of the driver's calls: lines 80, 103, 134 and 141 of the run
DriverSetBegin ==
  /\ drv.pc = "ready"
  /\ \E core_id \in StressCores, is_busy \in BOOLEAN : DriverSetTest(core_id, is_busy)
  /\ UNCHANGED <<is_running_, thread_is_actually_busy_flags_, ui_pc, analysisVars>>
  /\ UNCHANGED besideRace

\* set_thread_busy_state, line 97: the entry is indexed again and the flag
\* behind it stored to
DriverSetStore ==
  /\ drv.pc = "store"
  /\ IF EntryExists(thread_is_actually_busy_flags_, drv.core_id)
        /\ ~EntriesNull
     THEN /\ thread_is_actually_busy_flags_' =
               [thread_is_actually_busy_flags_ EXCEPT ![drv.core_id] = drv.is_busy]
          /\ UNCHANGED bad_access
     ELSE /\ bad_access' = TRUE
          /\ UNCHANGED thread_is_actually_busy_flags_
  /\ drv' = [NoCall EXCEPT !.pc = "ready"]
  /\ UNCHANGED <<is_running_, thread_busy_states_, ui_pc, analysisVars>>
  /\ UNCHANGED besideRace

\* run_correlation_analysis returns
DriverFinish ==
  /\ drv.pc = "ready"
  /\ drv' = NoCall
  /\ UNCHANGED <<stressVars, ui_pc, bad_access, analysisVars>>
  /\ UNCHANGED besideRace

(***************************************************************************)
(* run_correlation_analysis beside the consumer stage of the pipeline:     *)
(* process_data_packet runs on the executor at any time, the run takes     *)
(* results_mutex_ only inside its blocks.                                  *)
(***************************************************************************)
\* the lengths of the packets the consumer stage hands over: a line of
\* data_buffer that was never written (empty data) and the table read
PacketCells == {{}, Cells}

\* process_data_packet at any time: a packet of another length re-assigns
\* analysis_results_
PacketArrives ==
  /\ \E cells \in PacketCells :
       IF DOMAIN analysis_results_ # cells
       THEN /\ analysis_results_' = [i \in cells |-> <<>>]
            /\ final_strength' = [i \in cells |-> <<>>]
       ELSE UNCHANGED <<analysis_results_, final_strength>>
  /\ UNCHANGED <<apc, stressed_core_id, baseline_stddevs, n_updates, busy_before, stressVars,
                 bad_index>>
  /\ UNCHANGED besidePacket

\* line 94: baseline_stddevs is created with the size analysis_results_ has
\* at that moment
BaselineAllocate ==
  /\ apc = "baseline"
  /\ stressed_core_id < NumCores
  /\ baseline_stddevs' = [i \in DOMAIN analysis_results_ |-> 0]
  /\ apc' = "snapshot"
  /\ UNCHANGED <<analysis_results_, stressed_core_id, n_updates, busy_before, final_strength,
                 stressVars, bad_index>>
  /\ UNCHANGED besidePacket

\* the indices a loop over analysis_results_ uses that baseline_stddevs
\* does not have
OutOfRange == DOMAIN analysis_results_ \ DOMAIN baseline_stddevs

\* lines 95-103: under the mutex baseline_stddevs[i] is written for every
\* i < analysis_results_.size(), then the core is stressed
BaselineSnapshot ==
  /\ apc = "snapshot"
  /\ \E stddevs \in [DOMAIN analysis_results_ \cap DOMAIN baseline_stddevs -> Stddevs] :
       baseline_stddevs' = [i \in DOMAIN baseline_stddevs |->
                              IF i \in DOMAIN stddevs THEN stddevs[i] ELSE 0]
  /\ bad_index' = (bad_index \/ OutOfRange # {})
  /\ thread_busy_states_' = PersistentAfter(thread_busy_states_, stressed_core_id, TRUE)
  /\ thread_is_actually_busy_flags_' =
       LiveAfter(thread_is_actually_busy_flags_, stressed_core_id, TRUE)
  /\ n_updates' = 0
  /\ apc' = "active"
  /\ UNCHANGED <<is_running_, analysis_results_, stressed_core_id, busy_before,
                 final_strength>>
  /\ UNCHANGED besidePacket

\* the values baseline_stddevs[i] can yield: the element, or anything when
\* i is outside the vector
BaselineRead(i) == IF i \in DOMAIN baseline_stddevs THEN {baseline_stddevs[i]} ELSE Stddevs

\* one iteration of the update loop (lines 112-132) with the size
\* analysis_results_ has now
UpdateAfterPackets ==
  /\ apc = "active"
  /\ n_updates < MaxUpdates
  /\ n_updates' = n_updates + 1
  /\ bad_index' = (bad_index \/ OutOfRange # {})
  /\ IF DOMAIN analysis_results_ = {}
     THEN UNCHANGED <<analysis_results_, final_strength>>
     ELSE \E i \in DOMAIN analysis_results_ :
            \E new_strength \in {correlation_strength(active, baseline) :
                                   active \in Stddevs, baseline \in BaselineRead(i)} :
              /\ \E r \in update_or_insert_correlation(analysis_results_[i],
                                                        stressed_core_id, new_strength) :
                   analysis_results_' = [analysis_results_ EXCEPT ![i] = r]
              /\ final_strength' =
                   [final_strength EXCEPT ![i] = (stressed_core_id :> new_strength) @@ @]
  /\ UNCHANGED <<apc, stressed_core_id, baseline_stddevs, busy_before, stressVars>>
  /\ UNCHANGED besidePacket

(***************************************************************************)
(* The taskflow pipeline of the moonitor stage by stage: stage 1 is        *)
(* SERIAL, stage 2 is PARALLEL over the lines and runs on the executor's   *)
(* workers.                                                                *)
(***************************************************************************)
\* stage 1 for the next token, on the line pf.line(): clear, seekg, sleep,
\* read; the buffer is placed in the line only if gcount() > 0
Stage1Produce ==
  /\ bytes_to_read > 0
  /\ period < MaxPeriods
  /\ line_token[period % NumLines] = 0
  /\ \E yield \in Yields(bytes_to_read) :
       /\ last_read' = [bytes |-> yield, reported |-> "none"]
       /\ data_buffer' = IF yield > 0
                         THEN [data_buffer EXCEPT ![period % NumLines] =
                                 [data_period |-> period + 1, bytes |-> yield]]
                         ELSE data_buffer
  /\ line_token' = [line_token EXCEPT ![period % NumLines] = period + 1]
  /\ period' = period + 1
  /\ next_wakeup' = next_wakeup + 1
  /\ UNCHANGED <<reader_state, pm_table_size, pm_table_stream, delivered, bytes_to_read,
                 logger_state, logger_stream>>
  /\ UNCHANGED <<qs_state, queued>>
  /\ UNCHANGED besidePipe

\* stage 2 on one line: process_data_packet(data_buffer[line]) under
\* results_mutex_; the lines run it independently of each other
Stage2Consume ==
  /\ \E line \in Lines :
       /\ line_token[line] # 0
       /\ delivered' = Append(delivered,
            [period |-> line_token[line],
             data_period |-> data_buffer[line].data_period,
             bytes |-> data_buffer[line].bytes,
             expected |-> bytes_to_read])
       /\ line_token' = [line_token EXCEPT ![line] = 0]
  /\ UNCHANGED <<reader_state, pm_table_size, pm_table_stream, last_read, period,
                 next_wakeup, bytes_to_read, data_buffer, logger_state, logger_stream>>
  /\ UNCHANGED <<qs_state, queued>>
  /\ UNCHANGED besidePipe

\* ---------------------------------------------------------------------------
\* measurement_thread_func(core_id, storage, sample_count, reader, capturer):
\* the sampler that stores into a pre-allocated buffer
\* ---------------------------------------------------------------------------

\* the steady clock advances while the thread runs, sleeps or spins
SteadyTick ==
  /\ steady < MaxSteady
  /\ steady' = steady + 1
  /\ UNCHANGED <<mpc, run_flag, buf_start, buf_next_sample_time, buf_timestamp,
                 buf_sample_count, storage, assert_failed, wrote_past, sleep_cut>>
  /\ UNCHANGED besideBuf

\* the caller signals the start: g_run_measurement.store(true)
RunFlagSet ==
  /\ mpc = "await"
  /\ ~run_flag
  /\ run_flag' = TRUE
  /\ UNCHANGED <<mpc, steady, buf_start, buf_next_sample_time, buf_timestamp,
                 buf_sample_count, storage, assert_failed, wrote_past, sleep_cut>>
  /\ UNCHANGED besideBuf

\* the caller ends the run: g_run_measurement.store(false)
RunFlagClear ==
  /\ mpc \notin {"await", "done", "aborted"}
  /\ run_flag
  /\ run_flag' = FALSE
  /\ UNCHANGED <<mpc, steady, buf_start, buf_next_sample_time, buf_timestamp,
                 buf_sample_count, storage, assert_failed, wrote_past, sleep_cut>>
  /\ UNCHANGED besideBuf

\* the polite spin ends; next_sample_time = Clock::now(); sample_count = 0
BufBegin ==
  /\ mpc = "await"
  /\ run_flag
  /\ buf_start' = steady
  /\ buf_next_sample_time' = steady
  /\ buf_sample_count' = 0
  /\ mpc' = "top"
  /\ UNCHANGED <<steady, run_flag, buf_timestamp, storage, assert_failed, wrote_past,
                 sleep_cut>>
  /\ UNCHANGED besideBuf

\* the loop condition, and the timestamp taken first in the body
BufLoopTop ==
  /\ mpc = "top"
  /\ IF run_flag
       THEN /\ buf_timestamp' = steady
            /\ mpc' = "store"
       ELSE /\ mpc' = "done"
            /\ UNCHANGED buf_timestamp
  /\ UNCHANGED <<steady, run_flag, buf_start, buf_next_sample_time, buf_sample_count,
                 storage, assert_failed, wrote_past, sleep_cut>>
  /\ UNCHANGED besideBuf

\* the element of storage the body may write
StoreGuard(count, size) == count < size

\* if (sample_count < storage.size()) { storage[sample_count] = ...; sample_count++; }
BufStore ==
  /\ mpc = "store"
  /\ IF StoreGuard(buf_sample_count, StorageSize)
       THEN /\ IF buf_sample_count \in DOMAIN storage
                 THEN /\ storage' = [storage EXCEPT ![buf_sample_count] = buf_timestamp]
                      /\ UNCHANGED wrote_past
                 ELSE /\ wrote_past' = TRUE
                      /\ UNCHANGED storage
            /\ buf_sample_count' = buf_sample_count + 1
       ELSE UNCHANGED <<storage, wrote_past, buf_sample_count>>
  /\ mpc' = "assert"
  /\ UNCHANGED <<steady, run_flag, buf_start, buf_next_sample_time, buf_timestamp,
                 assert_failed, sleep_cut>>
  /\ UNCHANGED besideBuf

\* assert(sample_count < storage.size()): a build with assertions aborts when
\* the condition is false, a build with NDEBUG goes on
BufAssert ==
  /\ mpc = "assert"
  /\ IF buf_sample_count < StorageSize
       THEN /\ mpc' = "advance"
            /\ UNCHANGED assert_failed
       ELSE /\ assert_failed' = TRUE
            /\ mpc' \in {"aborted", "advance"}
  /\ UNCHANGED <<steady, run_flag, buf_start, buf_next_sample_time, buf_timestamp,
                 buf_sample_count, storage, wrote_past, sleep_cut>>
  /\ UNCHANGED besideBuf

\* next_sample_time += sample_period
BufAdvance ==
  /\ mpc = "advance"
  /\ buf_next_sample_time' = buf_next_sample_time + sample_period
  /\ mpc' = "wait"
  /\ UNCHANGED <<steady, run_flag, buf_start, buf_timestamp, buf_sample_count, storage,
                 assert_failed, wrote_past, sleep_cut>>
  /\ UNCHANGED besideBuf

\* a spin that gives up one spin_threshold before the deadline
SpinOverEarly(t, deadline) == ~(t + spin_threshold < deadline)

\* wait_until: the test that ends the final spin
SpinOver(t, deadline) == ~(t < deadline)

\* wait_until(deadline): return at once when the deadline has passed, sleep
\* when more than spin_threshold remains, else spin
WaitEnter ==
  /\ mpc = "wait"
  /\ mpc' = IF buf_next_sample_time <= steady THEN "top"
            ELSE IF buf_next_sample_time - steady > spin_threshold THEN "sleep"
            ELSE "spin"
  /\ UNCHANGED <<steady, run_flag, buf_start, buf_next_sample_time, buf_timestamp,
                 buf_sample_count, storage, assert_failed, wrote_past, sleep_cut>>
  /\ UNCHANGED besideBuf

\* clock_nanosleep(CLOCK_MONOTONIC, TIMER_ABSTIME, deadline - spin_threshold)
\* returns: at or after the wake time, or earlier with EINTR, which is ignored
WaitSleepReturns ==
  /\ mpc = "sleep"
  /\ \/ /\ steady >= buf_next_sample_time - spin_threshold
        /\ UNCHANGED sleep_cut
     \/ /\ steady < buf_next_sample_time - spin_threshold
        /\ sleep_cut' = TRUE
  /\ mpc' = "spin"
  /\ UNCHANGED <<steady, run_flag, buf_start, buf_next_sample_time, buf_timestamp,
                 buf_sample_count, storage, assert_failed, wrote_past>>
  /\ UNCHANGED besideBuf

\* while (Clock::now() < deadline) cpu_relax();
WaitSpin ==
  /\ mpc = "spin"
  /\ SpinOver(steady, buf_next_sample_time)
  /\ mpc' = "top"
  /\ UNCHANGED <<steady, run_flag, buf_start, buf_next_sample_time, buf_timestamp,
                 buf_sample_count, storage, assert_failed, wrote_past, sleep_cut>>
  /\ UNCHANGED besideBuf

\* ---------------------------------------------------------------------------
\* StressTester::start, stop, set_thread_busy_state and stress_worker
\* ---------------------------------------------------------------------------

\* a worker loop that never looks at its stop flag
WorkerLoopForever(stop_flag) == FALSE

\* while (!stop_flag): the loop of stress_worker ends
WorkerLoopEnds(stop_flag) == stop_flag

\* start(): returns when running; else sets is_running_, makes the flags from
\* the persistent states and launches one worker per core
ModeBStart ==
  /\ stop_pc = "idle"
  /\ ~mb_running
  /\ mb_running' = TRUE
  /\ stop_flags_' = [c \in StressThreads |-> FALSE]
  /\ is_busy_flag' = [c \in StressThreads |-> mb_busy_states[c]]
  /\ threads_' = [c \in StressThreads |-> "check"]
  /\ UNCHANGED <<mb_busy_states, stop_pc, stop_i>>
  /\ UNCHANGED besideModeB

\* set_thread_busy_state(core_id, is_busy), while the flags exist
ModeBSetBusy ==
  /\ stop_pc # "clear"
  /\ \E core_id \in -1 .. NumStressThreads, is_busy \in BOOLEAN :
       IF core_id >= 0 /\ core_id < NumStressThreads
         THEN /\ mb_busy_states' = [mb_busy_states EXCEPT ![core_id] = is_busy]
              /\ is_busy_flag' = IF mb_running /\ core_id \in DOMAIN is_busy_flag
                                   THEN [is_busy_flag EXCEPT ![core_id] = is_busy]
                                   ELSE is_busy_flag
         ELSE UNCHANGED <<mb_busy_states, is_busy_flag>>
  /\ UNCHANGED <<mb_running, stop_flags_, threads_, stop_pc, stop_i>>
  /\ UNCHANGED besideModeB

\* the head of the worker loop: leave on the stop flag, else begin a period,
\* working when the is_busy flag is set and going straight to the sleep when not
ModeBWorkerCheck(c) ==
  /\ c \in DOMAIN threads_
  /\ threads_[c] = "check"
  /\ threads_' = [threads_ EXCEPT ![c] =
                    IF WorkerLoopEnds(stop_flags_[c]) THEN "exited"
                    ELSE IF is_busy_flag[c] THEN "work" ELSE "sleep"]
  /\ UNCHANGED <<mb_running, mb_busy_states, stop_flags_, is_busy_flag, stop_pc, stop_i>>
  /\ UNCHANGED besideModeB

\* the clock reaches work_end: the work loop is left
ModeBWorkerWorked(c) ==
  /\ c \in DOMAIN threads_
  /\ threads_[c] = "work"
  /\ threads_' = [threads_ EXCEPT ![c] = "sleep"]
  /\ UNCHANGED <<mb_running, mb_busy_states, stop_flags_, is_busy_flag, stop_pc, stop_i>>
  /\ UNCHANGED besideModeB

\* sleep_until(loop_end) returns, or loop_end has already passed
ModeBWorkerSlept(c) ==
  /\ c \in DOMAIN threads_
  /\ threads_[c] = "sleep"
  /\ threads_' = [threads_ EXCEPT ![c] = "check"]
  /\ UNCHANGED <<mb_running, mb_busy_states, stop_flags_, is_busy_flag, stop_pc, stop_i>>
  /\ UNCHANGED besideModeB

ModeBWorker == \E c \in StressThreads :
  ModeBWorkerCheck(c) \/ ModeBWorkerWorked(c) \/ ModeBWorkerSlept(c)

\* stop() is called: it returns at once when not running
ModeBStopCall ==
  /\ stop_pc = "idle"
  /\ mb_running
  /\ stop_pc' = "flag"
  /\ stop_i' = 0
  /\ UNCHANGED <<mb_running, mb_busy_states, stop_flags_, is_busy_flag, threads_>>
  /\ UNCHANGED besideModeB

\* the first loop of stop(): stop_flags_[i]->store(true)
ModeBStopFlag ==
  /\ stop_pc = "flag"
  /\ IF stop_i < NumStressThreads
       THEN /\ stop_flags_' = [stop_flags_ EXCEPT ![stop_i] = TRUE]
            /\ stop_i' = stop_i + 1
            /\ UNCHANGED stop_pc
       ELSE /\ stop_pc' = "join"
            /\ stop_i' = 0
            /\ UNCHANGED stop_flags_
  /\ UNCHANGED <<mb_running, mb_busy_states, is_busy_flag, threads_>>
  /\ UNCHANGED besideModeB

\* the second loop of stop(): threads_[i].join() returns when the worker has
\* left stress_worker
ModeBStopJoin ==
  /\ stop_pc = "join"
  /\ IF stop_i < NumStressThreads
       THEN /\ threads_[stop_i] = "exited"
            /\ threads_' = [threads_ EXCEPT ![stop_i] = "joined"]
            /\ stop_i' = stop_i + 1
            /\ UNCHANGED stop_pc
       ELSE /\ stop_pc' = "clear"
            /\ stop_i' = 0
            /\ UNCHANGED threads_
  /\ UNCHANGED <<mb_running, mb_busy_states, stop_flags_, is_busy_flag>>
  /\ UNCHANGED besideModeB

\* the end of stop(): the three vectors are cleared, is_running_ = false
ModeBStopClear ==
  /\ stop_pc = "clear"
  /\ threads_' = <<>>
  /\ stop_flags_' = <<>>
  /\ is_busy_flag' = <<>>
  /\ mb_running' = FALSE
  /\ stop_pc' = "idle"
  /\ UNCHANGED <<mb_busy_states, stop_i>>
  /\ UNCHANGED besideModeB

\* ---------------------------------------------------------------------------
\* EyeCapturer::set_storage and EyeCapturer::process_sample
\* ---------------------------------------------------------------------------

eyeHistory == <<set_to, prev_bound, prev_contents>>

\* a window test that lets the bin one past the last through
InWindowInclusive(bin_index, n) == bin_index >= 0 /\ bin_index <= n

\* if (bin_index >= 0 && bin_index < num_bins)
InWindow(bin_index, n) == bin_index >= 0 /\ bin_index < n

\* the rows of bins one sample is pushed to: the storage index of every sensor
\* index below measurements.size() that the reverse map holds
TrackedRows(size) ==
  {sensor_to_storage_idx_[s] : s \in (0 .. (size - 1)) \cap DOMAIN sensor_to_storage_idx_}

\* storage_.bins[storage_idx][bin_index].push_back(value), for every row
PushRows(st, rows, bin_index, value) ==
  [st EXCEPT !.bins =
     [j \in DOMAIN st.bins |->
        [k \in DOMAIN st.bins[j] |->
           IF j \in rows /\ k = bin_index THEN Append(st.bins[j][k], value)
           ELSE st.bins[j][k]]]]

\* set_storage(storage): `storage_ = storage;` on the reference member storage_
\* assigns to the object the reference is bound to, which takes a copy of the
\* argument; the reference stays bound to the object of the constructor
EyeSetStorage ==
  \E s \in Buffers :
    /\ stores' = [stores EXCEPT ![storage_] = stores[s]]
    /\ set_to' = s
    /\ prev_bound' = storage_
    /\ prev_contents' = stores[storage_]
    /\ write_target' = "none"
    /\ UNCHANGED <<storage_, eye_state_, last_worker_state_, last_rise_time_, eye_ts,
                   n_processed, last_bin_index, bad_write>>
    /\ UNCHANGED besideEye

\* process_sample(timestamp, worker_state, measurements)
EyeProcessSample ==
  /\ n_processed < MaxEyeSamples
  /\ \E d \in 0 .. MaxEyeStep, worker_state \in {0, 1} :
       LET timestamp == eye_ts + d
           rise == worker_state = 1 /\ last_worker_state_ = 0
           state1 == IF rise THEN "CAPTURING" ELSE eye_state_
           rise1 == IF rise THEN timestamp ELSE last_rise_time_
           st0 == stores[storage_]
           st1 == IF rise THEN [st0 EXCEPT !.event_count = @ + 1] ELSE st0
           bin_index == (timestamp - rise1) + st1.zero_offset_bins
           rows == TrackedRows(NumMeasurements)
           writes == state1 = "CAPTURING" /\ InWindow(bin_index, st1.num_bins)
           inside == \A j \in rows : j \in DOMAIN st1.bins /\ bin_index \in DOMAIN st1.bins[j]
       IN /\ eye_ts' = timestamp
          /\ last_worker_state_' = worker_state
          /\ last_rise_time_' = rise1
          /\ n_processed' = n_processed + 1
          /\ last_bin_index' = IF state1 = "CAPTURING" THEN bin_index ELSE -1
          /\ eye_state_' = IF state1 = "CAPTURING" /\ ~writes /\ bin_index >= st1.num_bins
                             THEN "IDLE" ELSE state1
          /\ stores' = [stores EXCEPT ![storage_] =
                          IF writes /\ inside THEN PushRows(st1, rows, bin_index, timestamp)
                          ELSE st1]
          /\ bad_write' = (bad_write \/ (writes /\ ~inside))
          /\ write_target' = IF writes /\ rows # {} THEN storage_ ELSE write_target
  /\ UNCHANGED <<storage_, eyeHistory>>
  /\ UNCHANGED besideEye

\* ---------------------------------------------------------------------------
\* JitterMonitor::record_sample, report_and_reset and reset
\* ---------------------------------------------------------------------------

\* the values of int
IntSpan == 2 ^ IntBits

\* the conversion of a long long to int: the value modulo 2^IntBits
ToInt(x) == ((x + IntSpan \div 2) % IntSpan) - IntSpan \div 2

\* the periods the producer stage measures: from none to just past the
\* histogram, and those one span of int later (a stalled producer)
PeriodsUs ==
  (0 .. (target_period_us_ + histogram_range_us_ + 1))
    \cup ((target_period_us_ + IntSpan - histogram_range_us_ - 1)
            .. (target_period_us_ + IntSpan + histogram_range_us_ + 1))

\* int bin_index = jitter_us + histogram_range_us_
bin_index_of(period_us) == ToInt((period_us - target_period_us_) + histogram_range_us_)

\* std::sort(all_periods_us_.begin(), all_periods_us_.begin() + n)
SortFirst(a, n) ==
  [i \in DOMAIN a |->
     IF i < n
       THEN CHOOSE v \in {a[j] : j \in 0 .. (n - 1)} :
              /\ Cardinality({j \in 0 .. (n - 1) : a[j] < v}) <= i
              /\ i < Cardinality({j \in 0 .. (n - 1) : a[j] <= v})
       ELSE a[i]]

\* record_sample(period_us), with the report_and_reset() and reset() it calls
\* when the interval is complete
JitterRecordSample ==
  /\ n_reports < MaxReports
  /\ \E period_us \in PeriodsUs :
       LET stored == IF sample_count_ < report_interval_
                       THEN IF sample_count_ \in DOMAIN all_periods_us_
                              THEN [all_periods_us_ EXCEPT ![sample_count_] = period_us]
                              ELSE all_periods_us_
                       ELSE all_periods_us_
           bin_index == bin_index_of(period_us)
           hist == IF bin_index >= 0 /\ bin_index < Cardinality(DOMAIN jitter_histogram_)
                     THEN [jitter_histogram_ EXCEPT ![bin_index] = @ + 1]
                     ELSE jitter_histogram_
           count == sample_count_ + 1
       IN /\ bad_period_write' =
               (bad_period_write
                  \/ (sample_count_ < report_interval_
                        /\ sample_count_ \notin DOMAIN all_periods_us_))
          /\ n_recorded' = n_recorded + 1
          /\ IF count >= report_interval_
               THEN /\ all_periods_us_' = SortFirst(stored, count)
                    /\ n_reports' = n_reports + 1
                    /\ sample_count_' = 0
                    /\ sum_periods_us_' = 0
                    /\ min_period_us_' = LLONG_MAX
                    /\ max_period_us_' = 0
                    /\ jitter_histogram_' = NewHistogram
                    /\ recorded' = <<>>
               ELSE /\ all_periods_us_' = stored
                    /\ sample_count_' = count
                    /\ sum_periods_us_' = sum_periods_us_ + period_us
                    /\ min_period_us_' = IF period_us < min_period_us_ THEN period_us
                                         ELSE min_period_us_
                    /\ max_period_us_' = IF period_us > max_period_us_ THEN period_us
                                         ELSE max_period_us_
                    /\ jitter_histogram_' = hist
                    /\ recorded' = Append(recorded, period_us)
                    /\ UNCHANGED n_reports
  /\ UNCHANGED besideJitter

(***************************************************************************)
(* Specifications.                                                         *)
(***************************************************************************)
EnvNext == WorkerBusy \/ WorkerWait \/ SamplerSample \/ SamplerRetry

\* the pipeline: stimulus, sampler, ring, processing thread
Next == EnvNext \/ ProcCommand \/ ProcRead

Spec == Init /\ [][Next]_vars

\* the pipeline up to the end of the worker's first busy phase
FirstCycleNext == WorkerBusy \/ SamplerSample \/ SamplerRetry \/ ProcCommand \/ ProcRead

\* the same under weak fairness of the sampler's retry and of the processing
\* thread: a thread that can run is eventually scheduled
FairSpec ==
  /\ Init
  /\ [][FirstCycleNext]_vars
  /\ WF_vars(SamplerRetry)
  /\ WF_vars(ProcCommand \/ ProcRead)

\* the pipeline with the UI thread submitting ChangeCore commands
CoreNext == EnvNext \/ ProcCommand \/ ProcRead \/ FrameChangeCore

SpecCore == Init /\ [][CoreNext]_vars

\* the pipeline with the UI thread submitting ChangeAccumulations commands
AccNext == EnvNext \/ ProcCommand \/ ProcRead \/ FrameChangeAccumulations

SpecAcc == Init /\ [][AccNext]_vars

\* the command channel: the UI thread submits commands of both kinds to the
\* processing thread while the worker waits
ChannelNext ==
  \/ SamplerSample
  \/ SamplerRetry
  \/ ProcCommand
  \/ ProcRead
  \/ ChannelChangeCore
  \/ ChannelChangeAccumulations

SpecChannel == Init /\ [][ChannelNext]_vars

\* the stimulus worker running its bursts cycle by cycle while the sampler
\* records the phase
BurstNext ==
  \/ BurstLaunch
  \/ BurstGo
  \/ WorkerStart
  \/ CycleBusy
  \/ CycleWait
  \/ WorkerReturn
  \/ SamplerSample

SpecBurst == Init /\ [][BurstNext]_vars

\* a thread that runs under a RealtimeGuard, moved or not, and leaves its scope
GuardNext ==
  \/ ThreadCreate
  \/ RealtimeGuardCtor
  \/ RealtimeGuardMove
  \/ RealtimeGuardMoveAssign
  \/ RealtimeGuardDtor

SpecGuard == Init /\ [][GuardNext]_vars

\* the steps of one correlation run
RunNext ==
  \/ StressStart
  \/ AnalysisBegin
  \/ AnalysisBaseline
  \/ AnalysisUpdate
  \/ AnalysisEndCore
  \/ AnalysisCleanup

\* a correlation run over the sensors of the PM table
CorrelationNext == process_data_packet \/ RunNext

SpecCorrelation == Init /\ [][CorrelationNext]_vars

\* a correlation run after the user has chosen which stress threads are enabled
SweepNext == StressStop \/ CheckboxSetBusy \/ RunNext

SpecSweep == Init /\ [][SweepNext]_vars

\* a correlation run with the user at the controls of the stress threads
WindowsNext ==
  \/ RunNext
  \/ UiCheckbox
  \/ UiEnableAll
  \/ UiDisableAll

SpecWindows == Init /\ [][WindowsNext]_vars

\* the UI thread stopping and starting the stress threads while the
\* correlation driver sets their busy states
RaceNext ==
  \/ UiStartBegin
  \/ UiStartResize
  \/ UiStartFill
  \/ UiStopJoin
  \/ UiStopClear
  \/ UiStopEnd
  \/ UiCheckbox
  \/ UiEnableAll
  \/ UiDisableAll
  \/ RunAnalysisClick
  \/ DriverSetBegin
  \/ DriverSetStore
  \/ DriverFinish

SpecRace == Init /\ [][RaceNext]_vars

\* a correlation run while the consumer stage delivers packets
PacketsNext ==
  \/ StressStart
  \/ PacketArrives
  \/ AnalysisBegin
  \/ BaselineAllocate
  \/ BaselineSnapshot
  \/ UpdateAfterPackets
  \/ AnalysisEndCore
  \/ AnalysisCleanup

SpecPackets == Init /\ [][PacketsNext]_vars

\* the moonitor's pipeline with its stages scheduled separately
PipeNext ==
  \/ MoonitorDetect
  \/ Stage1Produce
  \/ Stage2Consume

SpecPipe == Init /\ [][PipeNext]_vars

\* the pipeline with a ChangeAccumulations command of any new_count
AnyCountNext == EnvNext \/ ProcCommand \/ ProcRead \/ SubmitAnyCount

SpecAnyCount == Init /\ [][AnyCountNext]_vars

\* a run of the buffer-backed sampler under the clock and its caller
BufNext ==
  \/ SteadyTick \/ RunFlagSet \/ RunFlagClear \/ BufBegin \/ BufLoopTop \/ BufStore
  \/ BufAssert \/ BufAdvance \/ WaitEnter \/ WaitSleepReturns \/ WaitSpin

SpecBuf == Init /\ [][BufNext]_vars

\* a StressTester that is started, toggled and stopped while its workers run;
\* the workers and the caller inside stop() are scheduled, the clock advances
ModeBNext ==
  \/ ModeBStart \/ ModeBSetBusy \/ ModeBWorker \/ ModeBStopCall \/ ModeBStopFlag
  \/ ModeBStopJoin \/ ModeBStopClear

SpecModeB ==
  /\ Init /\ [][ModeBNext]_vars
  /\ \A c \in StressThreads :
       /\ WF_vars(ModeBWorkerCheck(c))
       /\ WF_vars(ModeBWorkerWorked(c))
       /\ WF_vars(ModeBWorkerSlept(c))
  /\ WF_vars(ModeBStopFlag) /\ WF_vars(ModeBStopJoin) /\ WF_vars(ModeBStopClear)

\* an EyeCapturer fed with samples, with set_storage called between them
EyeNext == EyeSetStorage \/ EyeProcessSample

SpecEye == Init /\ [][EyeNext]_vars

\* the JitterMonitor fed with the periods of the producer stage
SpecJitter == Init /\ [][JitterRecordSample]_vars

\* GuiRunner::run with its three background threads
ThreadsNext ==
  \/ GuiLaunch
  \/ GuiFrame
  \/ GuiShutdown
  \/ GuiJoin
  \/ MeasurementStart
  \/ MeasurementLoop
  \/ ProcessingLoop
  \/ WorkerLoop
  \/ WorkerCycle

\* the same with every thread that can run eventually scheduled
SpecShutdown ==
  /\ Init
  /\ [][ThreadsNext]_vars
  /\ WF_vars(GuiJoin)
  /\ WF_vars(MeasurementStart)
  /\ WF_vars(MeasurementLoop)
  /\ WF_vars(ProcessingLoop)
  /\ WF_vars(WorkerLoop)
  /\ WF_vars(WorkerCycle)

\* the three programs that read the pm_table blob, one of them per run
ReaderNext ==
  \/ PmTableReaderCtor
  \/ SamplerPeriod
  \/ MoonitorDetect
  \/ MoonitorToken
  \/ LoggerStart
  \/ LoggerPeriod

SpecReader == Init /\ [][ReaderNext]_vars

\* the processing thread's loop with the sampler and the UI thread
DrainNext ==
  \/ DrainSamplerWrite
  \/ DrainPushCommand
  \/ DrainProcCommand
  \/ DrainProcRead
  \/ DrainProcSleep

\* the same with the processing thread running for ever
SpecDrain ==
  /\ Init
  /\ [][DrainNext]_vars
  /\ WF_vars(DrainProcCommand)
  /\ WF_vars(DrainProcRead)
  /\ WF_vars(DrainProcSleep)

\* one call of calculate_trimmed_mean
SpecTrim == Init /\ [][TrimmedMeanCall]_vars

\* construction, moves and destruction of LockedBuffers
LockedNext ==
  \/ LockedBufferCtor
  \/ LockedBufferMove
  \/ LockedBufferMoveAssign
  \/ LockedBufferDtor

SpecLocked == Init /\ [][LockedNext]_vars

\* the GUI program from the construction of its reader to its queue sampler
StartupNext ==
  \/ PmTableReaderCtor
  \/ QueueSamplerStart
  \/ QueueSamplerSample

SpecStartup == Init /\ [][StartupNext]_vars

\* the pipeline with the UI thread reading the published snapshots while the
\* processing thread writes them
RenderNext ==
  \/ EnvNext
  \/ ProcCommand
  \/ ProcReadStepwise
  \/ ProcClear
  \/ ProcFillX
  \/ ProcFillY
  \/ ProcPublish
  \/ ProcFlip
  \/ RenderControls
  \/ RenderTableLoad
  \/ RenderCheck
  \/ RenderPlot

SpecRender == Init /\ [][RenderNext]_vars

(***************************************************************************)
(* Properties.                                                             *)
(***************************************************************************)
Min2(a, b) == IF a <= b THEN a ELSE b

\* the samples built and not yet dequeued, oldest first
InFlight == RingContents \o (IF spc = "write" THEN <<pending>> ELSE <<>>)

\* the snapshot of sensor slot i reachable through its published pointer
Published(i) == display_data[gui_display_pointers_[i]][i]

\* C1: samples are dequeued by the processor in the order the sampler enqueued
\* them: each dequeued sample is the next one in production order, and the
\* timestamps seen by the consumer never decrease.
C1_FifoOrder ==
  [][n_consumed' # n_consumed =>
       /\ last_seq' = last_seq + 1
       /\ (n_consumed > 0 => last_ts' >= last_ts)]_vars

\* C1 witness: the ring has wrapped around and every sample was dequeued
C1_Witness ==
  /\ n_consumed = MaxSamples
  /\ last_seq = MaxSamples
  /\ MaxSamples > QueueSize

\* C2: every sample built is dequeued exactly once: the samples not yet dequeued
\* are in flight (in the ring, or held by the sampler that waits for a free
\* slot), exactly once and in production order; and once the consumer runs
\* again, everything built is eventually dequeued.
C2_ExactlyOnce ==
  /\ [](/\ last_seq = n_consumed
        /\ Len(InFlight) = sample_count - n_consumed
        /\ \A k \in 1 .. Len(InFlight) : InFlight[k].seq = n_consumed + k)
  /\ <>[](n_consumed = sample_count)

\* C2 witness: the ring is full and the sampler holds a sample it could not enqueue
C2_Witness ==
  /\ spc = "write"
  /\ isFull
  /\ pending.seq = sample_count

\* C3: a capture is started only by a sample with phase 1 whose predecessor in
\* the stream had phase 0.
C3_RisingEdgeOnly ==
  [][(state = "IDLE" /\ state' = "CAPTURING" /\ n_consumed' # n_consumed) =>
       (last_phase = 0 /\ last_phase' = 1)]_vars

\* C4: while the render loop holds a loaded snapshot pointer and has not
\* finished reading it, the snapshot it reads is not written.
C4_NoWriteUnderReader ==
  [][(rpc \in {"loaded", "plotting"}) =>
       display_data'[plot][StorageIdx(r_i)] = display_data[plot][StorageIdx(r_i)]]_vars

\* C5: the instance the processor writes is never the published one; a publish
\* stores the instance just written, and after the flip the write side is the
\* instance that was published before.
C5_WriteSideNotPublished ==
  /\ ppc \in {"cmd", "read", "clear", "fillx", "filly"} =>
       \A i \in Sensors : gui_display_pointers_[i] = Other(write_buffer_ptr)
  /\ ppc = "publish" =>
       \A i \in Sensors :
         gui_display_pointers_[i] =
           IF i < fill_i THEN write_buffer_ptr ELSE Other(write_buffer_ptr)
  /\ ppc = "flip" => \A i \in Sensors : gui_display_pointers_[i] = write_buffer_ptr

\* C5 witness: the processor fills the instance that was published one
\* finalization earlier
C5_Witness ==
  /\ ppc = "filly"
  /\ finalizations >= 2
  /\ write_buffer_ptr = "A"
  /\ display_data["B"][fill_i].x_data # <<>>

\* C6: in every snapshot reachable through a published pointer the four vectors
\* have the same length and min <= mean <= max holds at every point.
C6_SnapshotConsistent ==
  \A i \in Sensors :
    LET d == Published(i) IN
    /\ Len(d.y_data_mean) = Len(d.x_data)
    /\ Len(d.y_data_min) = Len(d.x_data)
    /\ Len(d.y_data_max) = Len(d.x_data)
    /\ \A k \in 1 .. Len(d.x_data) :
         /\ FracLeq(Frac(d.y_data_min[k], 1), d.y_data_mean[k])
         /\ FracLeq(d.y_data_mean[k], Frac(d.y_data_max[k], 1))

\* C6 witness: a published snapshot has a point whose minimum is below its maximum
C6_Witness ==
  \E i \in Sensors :
    \E k \in 1 .. Len(Published(i).x_data) :
      /\ Len(Published(i).y_data_min) = Len(Published(i).x_data)
      /\ Len(Published(i).y_data_max) = Len(Published(i).x_data)
      /\ Published(i).y_data_min[k] < Published(i).y_data_max[k]

\* C7 as stated: from the first finalization on, every bin holds at most
\* max_accumulations_ values, the cap currently in force.
C7_BinsWithinCurrentCap ==
  finalizations > 0 =>
    \A j \in Sensors : \A b \in Bins :
      Len(accumulation_buffer[j][b]) <= max_accumulations_

\* C7 amended: every bin holds at most the cap that the latest finalization
\* loaded; a cap lowered by a ChangeAccumulations command is enforced by the
\* next finalization, not at once.
C7_BinsWithinLoadedCap ==
  /\ [](\A j \in Sensors : \A b \in Bins : Len(accumulation_buffer[j][b]) <= max_acc)
  /\ [][finalizations' = finalizations + 1 =>
          \A j \in Sensors : \A b \in Bins :
            Len(accumulation_buffer'[j][b]) <= max_accumulations_']_vars

\* C7 witness: a ChangeAccumulations command was applied and a later
\* finalization evicted values to meet the cap
C7_Witness ==
  /\ n_commands > 0
  /\ command_queue_ = <<>>
  /\ max_acc = max_accumulations_
  /\ \E j \in Sensors : \E b \in Bins :
       /\ Len(accumulation_buffer[j][b]) = max_acc
       /\ Len(pushed[j][b]) > max_acc

\* C8: with a fixed cap, a bin that received k values holds min(k, cap) of
\* them: the most recent ones, in push order.
C8_FifoEviction ==
  \A j \in Sensors : \A b \in Bins :
    LET k == Len(pushed[j][b]) IN
    /\ Len(accumulation_buffer[j][b]) = Min2(k, max_accumulations_)
    /\ accumulation_buffer[j][b] = Suffix(pushed[j][b], Min2(k, max_accumulations_))

\* C8 witness: a bin received one value per capture, more often than the cap,
\* and the evicted value differs from the values kept
C8_Witness ==
  \E j \in Sensors : \E b \in Bins :
    /\ finalizations >= 2
    /\ Len(pushed[j][b]) = finalizations
    /\ finalizations > max_accumulations_
    /\ pushed[j][b][1] # Last(pushed[j][b])

\* C9: after a finalization, a sample of the stream that precedes the trigger
\* within the pre-trigger window has its bin (a negative x) in the published
\* snapshot.
C9_PreTriggerBinned ==
  LET offset == DurationMs(pre_trigger_ts - last_rise_time) IN
  (/\ state = "IDLE"
   /\ finalizations > 0
   /\ pre_trigger_ts >= 0
   /\ offset < 0
   /\ offset + window_before_ms >= 0) =>
    \A i \in Sensors : \E k \in 1 .. Len(Published(i).x_data) :
      Published(i).x_data[k] = offset

\* the processing thread applies a ChangeCore command in this step
AppliesChangeCore ==
  /\ ppc = "cmd"
  /\ ppc' = "read"
  /\ command_queue_ # <<>>
  /\ Head(command_queue_).type = "ChangeCore"

C11_CommandOrder ==
  /\ [](/\ last_cmd + Len(command_queue_) = n_commands
        /\ \A k \in 1 .. Len(command_queue_) : command_queue_[k].id = last_cmd + k
        /\ try_pop(<<>>, DefaultCmd) = [ok |-> FALSE, queue |-> <<>>, cmd |-> DefaultCmd])
  /\ [][(ppc = "cmd" /\ ppc' = "read") =>
          IF command_queue_ = <<>>
          THEN UNCHANGED <<cmdVars, captureVars, binVars>>
          ELSE /\ last_cmd' = last_cmd + 1
               /\ command_queue_' = Tail(command_queue_)
               /\ Head(command_queue_).type = "ChangeAccumulations" =>
                    max_accumulations_' = Head(command_queue_).new_count
               /\ Head(command_queue_).type = "ChangeCore" =>
                    (state' = "IDLE" /\ max_accumulations_' = max_accumulations_)]_vars

\* C11 witness: two commands of different kinds were applied while a third,
\* pushed before the second was applied, still waits
C11_Witness ==
  /\ last_cmd = 2
  /\ Len(command_queue_) = 1
  /\ command_queue_[1].type = "ChangeCore"
  /\ max_accumulations_ # max_acc

\* C12: every burst ends with the worker phase at 0: whenever worker_thread_func
\* is not between its start and its return, g_worker_state is 0; so it is 0
\* when the worker returns and stays 0 until the next burst starts.
C12_BurstEndsAtZero ==
  /\ [](wpc \in {"idle", "spin"} => g_worker_state = 0)
  /\ [][(wpc # "idle" /\ wpc' = "idle") => g_worker_state' = 0]_vars

\* C12 witness: the second burst has returned after at least one cycle, and the
\* sampler saw the worker busy
C12_Witness ==
  /\ wpc = "idle"
  /\ bursts = MaxBursts
  /\ w_i >= 1
  /\ \E k \in 0 .. (QueueSize - 1) : records_[k].seq > 0 /\ records_[k].worker_state = 1

\* C13: once the RealtimeGuard of a thread is destroyed, the thread's policy,
\* priority and affinity equal the values it had before construction, for
\* every outcome of the save, pin and priority-raise calls of construction
C13_GuardRestores ==
  tpc = "done" =>
    /\ thread_sched = before.sched
    /\ thread_affinity = before.affinity

\* the restoring path: every call of construction succeeded and the thread is
\* back at a real-time schedule it had before
C13_Witness ==
  /\ tpc = "done"
  /\ ~ctor_failed
  /\ dtor_calls = 2
  /\ thread_sched = before.sched
  /\ thread_sched.policy = "SCHED_RR"
  /\ thread_affinity = before.affinity

\* C14: a partial failure during construction is recorded in the active flag,
\* and the destructor of a guard whose active flag is false makes no
\* scheduling, affinity or memory-unlock call
C14_FailureInActiveFlag ==
  /\ [](\A id \in GuardIds :
          (guards[id].alive /\ guards[id].active_) => ~ctor_failed)
  /\ [][(\E id \in GuardIds : guards[id].alive /\ ~guards'[id].alive /\ ~guards[id].active_)
          => /\ dtor_calls' = 0
             /\ UNCHANGED <<thread_sched, thread_affinity, memory_locked>>]_vars

\* a moved-from guard was destroyed without a call
C14_Witness ==
  /\ tpc = "done"
  /\ ~dtor_active
  /\ dtor_calls = 0
  /\ thread_sched.policy = "SCHED_FIFO"

\* C15: after every update_or_insert_correlation call each sensor's
\* top_correlations has at most 4 entries, is sorted descending by strength,
\* and every entry has 0 <= strength <= 1 and 0 <= quality <= 1
C15_CorrelationBounds ==
  \A i \in DOMAIN analysis_results_ :
    /\ Len(analysis_results_[i]) <= 4
    /\ Descending(analysis_results_[i])
    /\ \A k \in 1 .. Len(analysis_results_[i]) :
         /\ analysis_results_[i][k].correlation_strength \in 0 .. StrengthScale
         /\ analysis_results_[i][k].correlation_quality \in 0 .. StrengthScale

\* a fifth core was entered into a full list and displaced a weaker entry
C15_Witness ==
  /\ apc = "finished"
  /\ \E i \in DOMAIN analysis_results_ :
       /\ Len(analysis_results_[i]) = 4
       /\ analysis_results_[i][1].core_id = NumCores - 1
       /\ analysis_results_[i][1].correlation_strength = StrengthScale
       /\ analysis_results_[i][4].correlation_strength < StrengthScale
       /\ \A k \in 1 .. 4 : analysis_results_[i][k].core_id # 0

\* C16: when a correlation run finishes, every stimulus worker's enabled
\* state, persistent and live, equals its state before the run
C16_BusyRestored ==
  apc = "finished" =>
    /\ thread_busy_states_ = busy_before.persistent
    /\ thread_is_actually_busy_flags_ = busy_before.live

\* a run that began with every worker enabled ends with every worker enabled
C16_Witness ==
  /\ apc = "finished"
  /\ \A c \in StressCores : busy_before.persistent[c] /\ thread_busy_states_[c]
  /\ thread_is_actually_busy_flags_ = busy_before.live

ShutdownAfterStart == (terminate_threads_ /\ measurement # "spin") ~> (ui = "returned")

\* a shutdown that found the sampler past its start spin has returned
C17_Witness ==
  /\ ui = "returned"
  /\ measurement = "exited"
  /\ processing = "exited"
  /\ worker = "exited"
  /\ manual_mode_

\* C18: when a blob read returns fewer bytes than expected, no sample of that
\* period is delivered, neither partial nor stale, and the next deadline
\* still advances by one period
C18_UnderReadSkipped ==
  /\ \A k \in 1 .. Len(delivered) :
       /\ delivered[k].bytes = delivered[k].expected
       /\ delivered[k].data_period = delivered[k].period
  /\ next_wakeup = period

\* an under-read period of the standalone logger delivered nothing and kept
\* the cadence
C18_Witness ==
  /\ logger_state = "running"
  /\ last_read.reported = "failed"
  /\ period = 2
  /\ Len(delivered) = 1
  /\ next_wakeup = 2

\* C19: read(dst) succeeds iff size() bytes were read; a short read is
\* reported to the caller as an error
C19_ShortReadReported ==
  (reader_state = "constructed" /\ period > 0) =>
    /\ last_read.bytes = pm_table_size <=> last_read.reported = "ok"
    /\ last_read.bytes < pm_table_size => last_read.reported = "failed"

\* C20: a reader whose discovered size is 0 or above 16 KiB is never used
\* for reads, so every read() transfers between 1 and 16384 bytes
C20_SizeBoundEnforced ==
  /\ reader_state = "constructed" => pm_table_size \in 1 .. SizeLimit
  /\ (reader_state = "constructed" /\ period > 0) => last_read.bytes \in 1 .. SizeLimit

\* the standalone logger stops on a size outside the bound
C20_Witness ==
  /\ logger_state = "exit_failure"
  /\ pm_table_size > SizeLimit
  /\ period = 0

\* C21: no RawSample carries more than MAX_SENSORS values: when the blob's
\* element count size()/4 exceeds it, the sampler aborts before sampling
C21_SampleWithinCapacity ==
  /\ \A k \in 1 .. Len(queued) : queued[k].num_measurements <= PM_TABLE_MAX_FLOATS
  /\ (reader_state = "constructed" /\ pm_table_size \div 4 > PM_TABLE_MAX_FLOATS) =>
       (qs_state # "sampling" /\ queued = <<>>)

\* a size the reader's sanity bound accepts, too large for a RawSample: aborted
C21_Witness ==
  /\ qs_state = "aborted"
  /\ pm_table_size \in 1 .. SizeLimit
  /\ queued = <<>>

\* C22: LockedBuffer(bytes) with bytes > 0 stays usable when locking is
\* denied: mapped but not locked it has data, a page-rounded size and
\* locked() = false; when mmap fails it is a heap block of exactly `bytes`
\* bytes, unlocked; it is empty only when both mmap and malloc fail
C22_UsableWithoutLock ==
  last_ctor.bytes > 0 =>
    LET b == last_ctor.result
    IN /\ last_ctor.outcome \in {"rlimit", "mlock_failed"} =>
            /\ b.ptr_ # 0
            /\ b.bytes_ % PageSize = 0
            /\ b.bytes_ >= last_ctor.bytes
            /\ b.bytes_ < last_ctor.bytes + PageSize
            /\ ~b.locked_
       /\ last_ctor.outcome = "heap" =>
            (b.ptr_ # 0 /\ b.bytes_ = last_ctor.bytes /\ ~b.locked_)
       /\ b.ptr_ = 0 <=> last_ctor.outcome = "none"

\* a request of one byte more than a page, mapped as two pages and refused
\* by RLIMIT_MEMLOCK
C22_Witness ==
  /\ last_ctor.bytes = PageSize + 1
  /\ last_ctor.outcome = "rlimit"
  /\ buffers[last_ctor.id].alive
  /\ buffers[last_ctor.id].ptr_ # 0
  /\ buffers[last_ctor.id].bytes_ = 2 * PageSize

\* C23: over any sequence of move-construction, move-assignment and
\* destruction, each acquired region is released exactly once and by the
\* matching calls; a moved-from or empty buffer releases nothing
C23_ReleasedExactlyOnce ==
  \A r \in 1 .. Len(regions) :
    LET holders == {id \in BufIds : buffers[id].alive /\ buffers[id].ptr_ = r}
        released == regions[r].munmap + regions[r].free
    IN /\ ~regions[r].bad
       /\ released + Cardinality(holders) = 1
       /\ regions[r].munlock = IF regions[r].locked THEN regions[r].munmap ELSE 0
       /\ regions[r].mapped => regions[r].free = 0
       /\ ~regions[r].mapped => regions[r].munmap = 0

\* a locked mapping acquired by object 1 and moved to object 2: the
\* moved-from object has been destroyed and the region is still held
C23_Witness ==
  /\ Len(regions) = 1
  /\ last_ctor.id = 1
  /\ last_ctor.result.ptr_ = 1
  /\ regions[1].locked
  /\ regions[1].munlock + regions[1].munmap = 0
  /\ ~buffers[1].alive
  /\ buffers[2].alive
  /\ buffers[2].ptr_ = 1

\* the median of the ascending sequence sorted
Median(sorted) ==
  LET n == Len(sorted)
  IN IF n % 2 = 0 THEN Frac(sorted[n \div 2] + sorted[(n \div 2) + 1], 2)
     ELSE Frac(sorted[(n + 1) \div 2], 1)

\* the trimmed-mean rule with k = floor(p/100 * |B|): the median when
\* 2k >= |B|, otherwise the mean of the sorted values at positions
\* k .. |B|-k-1, counted from 0
TrimmedMeanRule(B, p) ==
  LET sorted == Sort(B)
      n == Len(B)
      k == (p * n) \div 100
  IN IF 2 * k >= n THEN Median(sorted)
     ELSE Frac(SeqSum(SubSeq(sorted, k + 1, n - k)), n - 2 * k)

FracEq(a, b) == a.num * b.den = b.num * a.den

\* C24: calculate_trimmed_mean(B, p) returns what the rule gives for
\* k = floor(p/100 * |B|), and trimmed_mean([1,2,3,4,100], 40) = 3
C24_TrimmedMeanRule ==
  tm_data # <<>> =>
    /\ FracEq(tm_result, TrimmedMeanRule(tm_data, tm_p))
    /\ (tm_data = <<1, 2, 3, 4, 100>> /\ tm_p = 40) => FracEq(tm_result, Frac(3, 1))

\* the rule holds of every call on fewer than 150 values
TrimmedMeanRuleShort ==
  (tm_data # <<>> /\ Len(tm_data) < 150) =>
    FracEq(tm_result, TrimmedMeanRule(tm_data, tm_p))

\* the example of the rule: trimmed_mean([1,2,3,4,100], 40) returned 3
C24_Witness ==
  /\ tm_data = <<1, 2, 3, 4, 100>>
  /\ tm_p = 40
  /\ tm_result = Frac(3, 1)

\* C25: when a sample with phase 1 follows a sample with phase 0 while a
\* capture is in progress and its window has not elapsed, the capture
\* restarts at that sample: the trigger time becomes its timestamp, the
\* current trace is cleared, and nothing of the interrupted capture is binned
C25_RestartOnEdge ==
  [][(/\ state = "CAPTURING"
      /\ n_consumed' # n_consumed
      /\ last_phase = 0
      /\ last_phase' = 1
      /\ DurationMs(last_ts' - last_rise_time) < period_ms_) =>
       (/\ state' = "CAPTURING"
        /\ last_rise_time' = last_ts'
        /\ \A k \in 1 .. Len(current_trace') : current_trace'[k].seq = last_seq'
        /\ pushed' = pushed)]_vars

\* a rising edge seen inside the window of a capture in progress
C25_Witness ==
  /\ state = "CAPTURING"
  /\ Len(current_trace) >= 3
  /\ current_trace[Len(current_trace) - 1].worker_state = 0
  /\ current_trace[Len(current_trace)].worker_state = 1

\* the snapshot of sensor slot i published by the step
PublishedNext(i) == display_data'[gui_display_pointers_'[i]][i]

\* the bins of sensor slot i that hold a value after the step
PopulatedNext(i) == {b \in Bins : accumulation_buffer'[i][b] # <<>>}

\* C26: in every published snapshot only bins holding at least one value are
\* emitted, each emitted x is the bin index minus the snapshot's
\* window_before_ms, and every x lies in [-window_before_ms, window_after_ms)
C26_EmittedBins ==
  [][(finalizations' # finalizations) =>
       \A i \in Sensors :
         LET d == PublishedNext(i) IN
         /\ Len(d.x_data) = Cardinality(PopulatedNext(i))
         /\ \A b \in PopulatedNext(i) :
              \E k \in 1 .. Len(d.x_data) : d.x_data[k] = b - d.window_before_ms
         /\ \A k \in 1 .. Len(d.x_data) :
              d.x_data[k] >= -d.window_before_ms /\ d.x_data[k] < d.window_after_ms]_vars

\* what holds of a published snapshot: one x per populated bin, the bin index
\* itself, inside the axis limits
EmittedPopulatedBins ==
  [][(finalizations' # finalizations) =>
       \A i \in Sensors :
         LET d == PublishedNext(i) IN
         /\ Len(d.x_data) = Cardinality(PopulatedNext(i))
         /\ \A b \in PopulatedNext(i) : \E k \in 1 .. Len(d.x_data) : d.x_data[k] = b
         /\ \A k \in 1 .. Len(d.x_data) :
              d.x_data[k] >= -d.window_before_ms /\ d.x_data[k] < d.window_after_ms]_vars

\* a published snapshot with an empty bin left out
C26_Witness ==
  /\ finalizations > 0
  /\ \E i \in Sensors :
       /\ Len(Published(i).x_data) >= 1
       /\ Len(Published(i).x_data) < num_bins

\* C27: every command pushed to the command queue is eventually applied
\* while the processing thread keeps running, also while the sampler keeps
\* producing and several commands are pending
C27_CommandsEventuallyApplied ==
  \A k \in 1 .. MaxChannelCommands : (dq_pushed >= k) ~> (dq_applied >= k)

\* whenever the ring is found empty often enough, the commands are applied:
\* a command is pending only while the thread is on its way to the next
\* command step
PendingOnlyUntilCommandStep ==
  [][(dq_pc = "cmd" /\ dq_pc' = "read" /\ dq_commands # <<>>) =>
       dq_applied' = dq_applied + 1]_vars

\* several commands pending while samples wait in the ring
C27_Witness ==
  /\ Len(dq_commands) >= 2
  /\ dq_samples > 0
  /\ dq_applied > 0

\* the workers whose live is_busy flag is true
BusyWorkers ==
  {c \in DOMAIN thread_is_actually_busy_flags_ : thread_is_actually_busy_flags_[c] = TRUE}

\* C28: throughout the active window of core c worker c is the only busy
\* stimulus worker, and throughout each baseline window no worker is busy,
\* whatever the UI's checkboxes and Enable All / Disable All do meanwhile
C28_OnlyStressedCoreBusy ==
  /\ (apc = "active") => (BusyWorkers = {stressed_core_id})
  /\ (apc = "baseline") => (BusyWorkers = {})

\* the active window of the last core, that worker alone busy
C28_Witness ==
  /\ apc = "active"
  /\ stressed_core_id = NumCores - 1
  /\ BusyWorkers = {stressed_core_id}
  /\ n_updates >= 1

\* the cores entered in a top_correlations list
ListedCores(top) == {top[k].core_id : k \in 1 .. Len(top)}

\* top holds min(4, measured) distinct cores with their final strengths, and
\* no core left out has a larger final strength than a core in the list
TopOfFinal(top, final) ==
  /\ Cardinality(ListedCores(top)) = Len(top)
  /\ ListedCores(top) \subseteq DOMAIN final
  /\ Len(top) = IF Cardinality(DOMAIN final) > TopK THEN TopK ELSE Cardinality(DOMAIN final)
  /\ \A k \in 1 .. Len(top) : top[k].correlation_strength = final[top[k].core_id]
  /\ \A c \in ListedCores(top) : \A d \in DOMAIN final \ ListedCores(top) :
       final[c] >= final[d]

\* C29: when a correlation run completes, each sensor's top_correlations
\* contains exactly the (up to 4) cores with the largest final strengths among
\* all cores measured in that run, whatever intermediate strengths the
\* periodic updates wrote during each core's active window
C29_TopOfFinalStrengths ==
  apc = "finished" =>
    \A i \in DOMAIN analysis_results_ : TopOfFinal(analysis_results_[i], final_strength[i])

\* what does hold at the end of a run: distinct cores, each listed with its
\* final strength
ListedWithFinalStrength ==
  apc = "finished" =>
    \A i \in DOMAIN analysis_results_ :
      /\ Cardinality(ListedCores(analysis_results_[i])) = Len(analysis_results_[i])
      /\ Len(analysis_results_[i]) = TopK
      /\ \A k \in 1 .. Len(analysis_results_[i]) :
           analysis_results_[i][k].correlation_strength =
             final_strength[i][analysis_results_[i][k].core_id]

\* a run in which some core's strength first rose and then fell ends with the
\* list the claim describes
C29_Witness ==
  /\ apc = "finished"
  /\ \E i \in DOMAIN analysis_results_ :
       /\ TopOfFinal(analysis_results_[i], final_strength[i])
       /\ DOMAIN final_strength[i] = StressCores
       /\ \E c \in StressCores : final_strength[i][c] = 0
       /\ \E c \in StressCores : final_strength[i][c] = StrengthScale

\* C30: set_thread_busy_state never accesses an entry of the flag vector
\* that stop() has destroyed or start() has not created yet, for every
\* interleaving of the driver's and the UI's calls with stop() and start()
C30_FlagEntryExists == bad_access = FALSE

\* the driver found its entry and is about to store while the UI thread is
\* inside stop()
C30_Witness ==
  /\ drv.pc = "store"
  /\ ui_pc = "stop_joined"
  /\ bad_access = FALSE

\* with the UI thread between two handlers the flags exist exactly while
\* the threads run
FlagsExistWhileRunning ==
  ui_pc = "idle" =>
    IF is_running_
    THEN DOMAIN thread_is_actually_busy_flags_ = StressCores
         /\ \A c \in StressCores : thread_is_actually_busy_flags_[c] \in BOOLEAN
    ELSE thread_is_actually_busy_flags_ = <<>>

\* C31: in run_correlation_analysis every read of baseline_stddevs[i] uses an
\* index i < baseline_stddevs.size(), for every interleaving with
\* process_data_packet resizing analysis_results_
C31_BaselineIndexInRange == bad_index = FALSE

\* with analysis_results_ of the size baseline_stddevs was created with, the
\* loops stay inside the vector
SameSizeInRange ==
  [][(apc \in {"snapshot", "active"} /\ OutOfRange = {}) => (bad_index' = bad_index)]_vars

\* an update of the list was made with the baseline read from the vector
C31_Witness ==
  /\ apc = "active"
  /\ n_updates >= 1
  /\ DOMAIN baseline_stddevs = Cells
  /\ DOMAIN analysis_results_ = Cells
  /\ bad_index = FALSE

\* C32: process_data_packet is applied to the data packets in the order in
\* which the serial producer stage read them (strictly increasing
\* timestamp), each packet once
C32_AppliedInReadOrder ==
  \A i, j \in 1 .. Len(delivered) :
    i < j => delivered[i].data_period < delivered[j].data_period

\* what the pipeline does give: every token passes stage 2 exactly once
EveryTokenOnce ==
  \A i, j \in 1 .. Len(delivered) : i # j => delivered[i].period # delivered[j].period

\* two packets were read and applied one after the other
C32_Witness ==
  /\ Len(delivered) >= 2
  /\ delivered[1].data_period = 1
  /\ delivered[2].data_period = 2

\* C33: the finalization trim step never pops from an empty bin deque, for
\* every new_count a ChangeAccumulations command can carry (0 and negative
\* values included)
C33_NeverPopsEmpty == popped_empty = FALSE

\* with a cap of zero or more the loop stops at the empty deque
NonNegativeCapSafe == (max_acc >= 0 /\ max_accumulations_ >= 0) => ~popped_empty

\* a finalization trimmed every bin to a cap of zero
C33_Witness ==
  /\ finalizations >= 1
  /\ max_acc = 0
  /\ \A j \in Sensors : \A b \in Bins : accumulation_buffer[j][b] = <<>>
  /\ \E j \in Sensors : \E b \in Bins : pushed[j][b] # <<>>
  /\ ~popped_empty

\* C34: in the buffer-backed sampler the asserted condition
\* sample_count < storage.size() holds after every loop iteration while the
\* run flag stays set, so the sampler never writes past the buffer
C34_AssertHolds == ~assert_failed /\ ~wrote_past

\* the guard of the body keeps every write inside the buffer
NeverWritesPast == ~wrote_past /\ buf_sample_count <= StorageSize

\* the buffer has been filled with the run flag still set
C34_Witness ==
  /\ run_flag
  /\ mpc = "assert"
  /\ buf_sample_count = StorageSize
  /\ \A i \in DOMAIN storage : storage[i] >= 0

\* C35: the (k+1)-th sample of the sampler is never taken before start + k ms:
\* the deadline advances by one sample_period per iteration, and wait_until
\* returns only once the clock has reached the deadline, also when the
\* absolute sleep was skipped or interrupted
C35_NotBeforeDeadline ==
  /\ \A i \in DOMAIN storage :
       storage[i] # -1 => storage[i] >= buf_start + i * sample_period
  /\ mpc = "top" => steady >= buf_next_sample_time

\* the deadline moves by exactly one sample_period, late or not
DeadlineStepsOnePeriod ==
  [][/\ mpc = "advance" /\ mpc' = "wait"
        => buf_next_sample_time' = buf_next_sample_time + sample_period
     /\ mpc \notin {"advance", "await"} => UNCHANGED buf_next_sample_time]_vars

\* three samples taken, one exactly on its deadline and one late, after a sleep
\* that was interrupted
C35_Witness ==
  /\ sleep_cut
  /\ \A i \in DOMAIN storage : storage[i] # -1
  /\ \E i \in DOMAIN storage : i > 0 /\ storage[i] = buf_start + i * sample_period
  /\ \E i \in DOMAIN storage : i > 0 /\ storage[i] > buf_start + i * sample_period

\* C36: StressTester::stop() terminates: once the stop flags are set every
\* worker, busy or held idle, leaves its loop at the end of its current period
\* (it begins no further period), all workers are joined, and is_running() is
\* false afterwards
C36_StopTerminates ==
  /\ (stop_pc = "flag") ~> (stop_pc = "idle" /\ ~mb_running /\ threads_ = <<>>)
  /\ [][\A c \in DOMAIN threads_ :
          (stop_flags_[c] /\ threads_[c] = "check" /\ c \in DOMAIN threads_')
            => threads_'[c] \in {"check", "exited"}]_vars
  /\ [](stop_pc = "clear" => \A c \in DOMAIN threads_ : threads_[c] = "joined")

\* stop() has joined every worker, one that was busy and one that was held idle
C36_Witness ==
  /\ stop_pc = "clear"
  /\ \A c \in DOMAIN threads_ : threads_[c] = "joined"
  /\ \E c \in DOMAIN is_busy_flag : is_busy_flag[c]
  /\ \E c \in DOMAIN is_busy_flag : ~is_busy_flag[c]

\* C37: set_storage(s) re-points the capturer at s: later process_sample calls
\* write into s, and the previously bound storage object is left unchanged by
\* set_storage and by all later samples
C37_SetStorageRepoints ==
  set_to # "none" =>
    /\ write_target \in {"none", set_to}
    /\ prev_bound # set_to => stores[prev_bound] = prev_contents

\* what the assignment does: the argument is never written by the capturer
ArgumentNeverWritten == stores["B"] = NewEyeStorage /\ storage_ = "A"

\* a sample was binned after set_storage was given the other storage
C37_Witness ==
  /\ set_to = "B"
  /\ prev_bound = "A"
  /\ write_target # "none"

\* the bins of all storages that a step has changed
ChangedBins ==
  {t \in Buffers \X (0 .. (num_interesting - 1)) \X (0 .. (EyeBefore + EyeAfter - 1)) :
     stores'[t[1]].bins[t[2]][t[3]] # stores[t[1]].bins[t[2]][t[3]]}

\* C38: process_sample only writes bins[storage_idx][bin] with
\* storage_idx < bins.size() and 0 <= bin < num_bins; a sample outside the
\* capture window and an untracked sensor index modify no bin; bins.size()
\* stays equal to original_sensor_indices.size()
C38_WritesInBounds ==
  /\ [](~bad_write)
  /\ [](\A b \in Buffers :
          /\ DOMAIN stores[b].bins = 0 .. (Len(stores[b].original_sensor_indices) - 1)
          /\ \A j \in DOMAIN stores[b].bins :
               DOMAIN stores[b].bins[j] = 0 .. (stores[b].num_bins - 1))
  /\ [][n_processed' = n_processed + 1 =>
          /\ \A t \in ChangedBins :
               /\ t[1] = storage_
               /\ t[2] \in {i - 1 : i \in 1 .. Len(interesting_index_)}
               /\ t[3] = last_bin_index'
               /\ Len(stores'[t[1]].bins[t[2]][t[3]]) = Len(stores[t[1]].bins[t[2]][t[3]]) + 1
          /\ (last_bin_index' < 0 \/ last_bin_index' >= stores[storage_].num_bins)
               => ChangedBins = {}]_vars

\* a capture that filled the last bin of the window and ended on the first
\* sample past it
C38_Witness ==
  /\ last_bin_index >= stores[storage_].num_bins
  /\ eye_state_ = "IDLE"
  /\ stores[storage_].bins[0][stores[storage_].num_bins - 1] # <<>>
  /\ ~bad_write

\* the periods since the last reset that fall on bin b of the histogram
HitsOf(b) ==
  Cardinality({i \in 1 .. Len(recorded) : recorded[i] - target_period_us_ = b - histogram_range_us_})

\* one report per report_interval samples, the counter and the array in bounds,
\* sum, min and max over every sample since the reset
CountsAndBounds ==
  /\ sample_count_ >= 0 /\ sample_count_ < report_interval_
  /\ sample_count_ = Len(recorded)
  /\ n_recorded = n_reports * report_interval_ + sample_count_
  /\ ~bad_period_write
  /\ DOMAIN all_periods_us_ = 0 .. (report_interval_ - 1)
  /\ \A i \in 1 .. Len(recorded) : all_periods_us_[i - 1] = recorded[i]
  /\ sum_periods_us_ = SeqSum(recorded)
  /\ \A i \in 1 .. Len(recorded) : min_period_us_ <= recorded[i] /\ recorded[i] <= max_period_us_
  /\ recorded # <<>> =>
       /\ \E i \in 1 .. Len(recorded) : recorded[i] = min_period_us_
       /\ \E i \in 1 .. Len(recorded) : recorded[i] = max_period_us_

\* C39: JitterMonitor emits exactly one report per report_interval samples and
\* then resets: between calls 0 <= sample_count < report_interval, every write
\* to the period array is in bounds, the histogram of 2*range+1 bins counts
\* exactly the samples whose deviation from the target lies within +/-range,
\* and sum, min and max account for every sample
C39_JitterAccounting ==
  /\ CountsAndBounds
  /\ DOMAIN jitter_histogram_ = 0 .. (2 * histogram_range_us_)
  /\ \A b \in DOMAIN jitter_histogram_ : jitter_histogram_[b] = HitsOf(b)

\* what the histogram counts: the samples whose bin index, narrowed to int,
\* falls on a bin
HistogramOfNarrowedIndex ==
  \A b \in DOMAIN jitter_histogram_ :
    jitter_histogram_[b] = Cardinality({i \in 1 .. Len(recorded) : bin_index_of(recorded[i]) = b})

\* a report was written and the next interval holds samples inside and outside
\* the histogram
C39_Witness ==
  /\ n_reports >= 1
  /\ \E b \in DOMAIN jitter_histogram_ : jitter_histogram_[b] > 0
  /\ \E i \in 1 .. Len(recorded) :
       recorded[i] - target_period_us_ > histogram_range_us_

====
